---- MODULE Spec2Model ----
(***************************************************************************)
(* A model of the Grafana OnCall -> chat relay: the chat router             *)
(* (app/models/routing.py), the settings it is built from (app/config.py)  *)
(* and the webhook ingest pipeline with its background delivery task       *)
(* (app/webhooks/handlers.py).                                             *)
(*                                                                         *)
(* JSON values are tagged records [t, v]: t is the JSON type and v a text  *)
(* that stands for the value ("" for an empty string, list or object, "0"  *)
(* for the number zero).  Channel identifiers are sequences of characters, *)
(* so that UUID parsing is computed and not assumed.                       *)
(***************************************************************************)
EXTENDS Integers, Sequences, FiniteSets, TLC

VARIABLES settings, chat_router, _chat_router, constructed, input, output, req, task, sends, delivered

vars == <<settings, chat_router, _chat_router, constructed, input, output, req, task, sends, delivered>>

(***************************************************************************)
(* Bounds                                                                  *)
(***************************************************************************)
MaxRequests == 2

Requests == 1..MaxRequests

(***************************************************************************)
(* JSON values                                                             *)
(***************************************************************************)
Absent == [t |-> "absent", v |-> ""]

Null == [t |-> "null", v |-> ""]

Str(s) == [t |-> "str", v |-> s]

Num(s) == [t |-> "num", v |-> s]

List(s) == [t |-> "list", v |-> s]

Obj(s) == [t |-> "obj", v |-> s]

\* dict.get(key): a missing key reads as None
Get(x) == IF x.t = "absent" THEN Null ELSE x

\* dict.get(key, {}): the default replaces a missing key only, never a null
GetOrEmptyDict(x) == IF x.t = "absent" THEN Obj("") ELSE x

\* Python's truth value of a JSON value
Truthy(x) ==
    CASE x.t \in {"absent", "null"} -> FALSE
      [] x.t = "num" -> x.v # "0"
      [] OTHER -> x.v # ""

\* whether `x in some_dict` can be evaluated: lists and dicts are unhashable
Hashable(x) == x.t \notin {"list", "obj"}

\* isinstance(x, dict)
IsDict(x) == x.t = "obj"

(***************************************************************************)
(* Objects with the fields the code reads.  An object's v is the text of   *)
(* its other keys ("" when it has none).                                   *)
(***************************************************************************)
TeamLeaf(x) == [t |-> x.t, v |-> x.v, team_id |-> Absent]

TeamObj(other, tid) == [t |-> "obj", v |-> other, team_id |-> tid]

EventLeaf(x) == [t |-> x.t, v |-> x.v, type |-> Absent]

EventObj(other, ty) == [t |-> "obj", v |-> other, type |-> ty]

\* event_data.get("event", {})
GetEvent(x) == IF x.t = "absent" THEN EventObj("", Absent) ELSE x

\* event_data.get("alert_group", {})
GetAlertGroup(x) == IF x.t = "absent" THEN TeamObj("", Absent) ELSE x

\* truth value of an object that may carry team_id / type: non-empty dict
TeamTruthy(x) == IF x.t = "obj" THEN x.v # "" \/ x.team_id.t # "absent" ELSE Truthy(x)

(***************************************************************************)
(* Channel identifiers: text as a sequence of characters                   *)
(***************************************************************************)
Rep(c, n) == [i \in 1..n |-> c]

Dashed(c) == Rep(c, 8) \o <<"-">> \o Rep(c, 4) \o <<"-">> \o Rep(c, 4) \o <<"-">> \o Rep(c, 4) \o <<"-">> \o Rep(c, 12)

NoChat == [t |-> "null", s |-> <<>>]

Chat(s) == [t |-> "str", s |-> s]

ChatNum(s) == [t |-> "num", s |-> s]

ChA == Chat(Dashed("1"))

ChB == Chat(Dashed("b"))

ChF == Chat(Dashed("f"))

ChBraced == Chat(<<"{">> \o Dashed("a") \o <<"}">>)

ChUrn == Chat(<<"u", "r", "n", ":", "u", "u", "i", "d", ":">> \o Dashed("2"))

ChHex32 == Chat(Rep("c", 32))

ChNotUuid == Chat(<<"n", "o", "t", "-", "a", "-", "u", "u", "i", "d">>)

ChShort == Chat(Rep("1", 31))

ChNonHex == Chat(Rep("1", 31) \o <<"g">>)

ChEmpty == Chat(<<>>)

ChFive == ChatNum(<<"5">>)

ChatTruthy(c) ==
    CASE c.t = "null" -> FALSE
      [] c.t = "num" -> c.s # <<"0">>
      [] OTHER -> c.s # <<>>

(***************************************************************************)
(* uuid.UUID(hex): what ChatRouter.validate_chat_id and the delivery task  *)
(* rely on                                                                 *)
(***************************************************************************)
HexDigits == {"0", "1", "2", "3", "4", "5", "6", "7", "8", "9", "a", "b", "c", "d", "e", "f", "A", "B", "C", "D", "E", "F"}

RECURSIVE RemoveSub(_, _)
\* str.replace(sub, ""): left to right, non-overlapping
RemoveSub(s, sub) ==
    IF Len(s) < Len(sub) THEN s
    ELSE IF SubSeq(s, 1, Len(sub)) = sub THEN RemoveSub(SubSeq(s, Len(sub) + 1, Len(s)), sub)
    ELSE <<Head(s)>> \o RemoveSub(Tail(s), sub)

RECURSIVE LStrip(_, _)
LStrip(s, cs) == IF s # <<>> /\ Head(s) \in cs THEN LStrip(Tail(s), cs) ELSE s

RECURSIVE RStrip(_, _)
RStrip(s, cs) == IF s # <<>> /\ s[Len(s)] \in cs THEN RStrip(SubSeq(s, 1, Len(s) - 1), cs) ELSE s

\* str.strip(chars)
Strip(s, cs) == RStrip(LStrip(s, cs), cs)

\* UUID(x): the exception it raises, "" when x parses
UUID(x) ==
    CASE x.t = "null" -> "TypeError"
      [] x.t # "str" -> "AttributeError"
      [] OTHER ->
           LET hex1 == RemoveSub(RemoveSub(x.s, <<"u", "r", "n", ":">>), <<"u", "u", "i", "d", ":">>)
               hex == RemoveSub(Strip(hex1, {"{", "}"}), <<"-">>)
           IN  IF Len(hex) # 32 THEN "ValueError"
               ELSE IF \E i \in 1..Len(hex) : hex[i] \notin HexDigits THEN "ValueError"
               ELSE ""

(***************************************************************************)
(* Settings (app/config.py)                                                *)
(***************************************************************************)
EmptyTable == [k \in {} |-> NoChat]

\* CHAT_ROUTING_CONFIG: unset, text that is no JSON, JSON that is no object,
\* or a JSON object
RoutingUnset == [kind |-> "unset", table |-> EmptyTable]

RoutingBadJson == [kind |-> "badjson", table |-> EmptyTable]

RoutingNonDict == [kind |-> "nondict", table |-> EmptyTable]

RoutingDict(tbl) == [kind |-> "dict", table |-> tbl]

\* Settings.get_chat_routing
get_chat_routing(self) ==
    IF self.chat_routing_config.kind = "unset" THEN EmptyTable
    ELSE IF self.chat_routing_config.kind = "badjson" THEN EmptyTable
    ELSE IF self.chat_routing_config.kind = "nondict" THEN EmptyTable
    ELSE self.chat_routing_config.table

(***************************************************************************)
(* ChatRouter (app/models/routing.py)                                      *)
(***************************************************************************)
NoRouter == [built |-> FALSE, routing_config |-> EmptyTable, fallback_chat_id |-> NoChat]

\* ChatRouter.__init__
ChatRouter(routing_config, fallback_chat_id) ==
    [built |-> TRUE,
     routing_config |-> IF DOMAIN routing_config = {} THEN EmptyTable ELSE routing_config,
     fallback_chat_id |-> fallback_chat_id]

Returned(c) == [exc |-> "", chat |-> c]

Raised(e) == [exc |-> e, chat |-> NoChat]

\* ExtractTeamId with the first two sources swapped: the top-level team_id is
\* tried before alert_group.team_id
ExtractTeamId_TopLevelFirst(event_data) ==
    LET alert_group == IF TeamTruthy(event_data.alert_group) THEN event_data.alert_group ELSE TeamObj("", Absent)
        t1 == Get(event_data.team_id)
        t2 == IF ~Truthy(t1)
              THEN IF IsDict(alert_group) THEN Get(alert_group.team_id) ELSE t1
              ELSE t1
        schedule == IF TeamTruthy(event_data.schedule) THEN event_data.schedule ELSE TeamObj("", Absent)
        t3 == IF ~Truthy(t2)
              THEN IF IsDict(schedule) THEN Get(schedule.team_id) ELSE t2
              ELSE t2
    IN  t3

\* the team_id that get_chat_id settles on after its three sources
ExtractTeamId(event_data) ==
    LET alert_group == IF TeamTruthy(event_data.alert_group) THEN event_data.alert_group ELSE TeamObj("", Absent)
        t1 == IF IsDict(alert_group) THEN Get(alert_group.team_id) ELSE Null
        t2 == IF ~Truthy(t1) THEN Get(event_data.team_id) ELSE t1
        schedule == IF TeamTruthy(event_data.schedule) THEN event_data.schedule ELSE TeamObj("", Absent)
        t3 == IF ~Truthy(t2)
              THEN IF IsDict(schedule) THEN Get(schedule.team_id) ELSE t2
              ELSE t2
    IN  t3

\* ChatRouter.get_chat_id
get_chat_id(self, event_data) ==
    LET team_id == ExtractTeamId(event_data)
        fallback == IF ChatTruthy(self.fallback_chat_id) THEN Returned(self.fallback_chat_id) ELSE Returned(NoChat)
    IN  IF Truthy(team_id)
        THEN IF ~Hashable(team_id) THEN Raised("TypeError")
             ELSE IF team_id.t = "str" /\ team_id.v \in DOMAIN self.routing_config
                  THEN Returned(self.routing_config[team_id.v])
                  ELSE fallback
        ELSE fallback

\* a validation that accepts every destination
validate_chat_id_AcceptAll(chat_id) == [exc |-> "", ok |-> TRUE]

\* ChatRouter.validate_chat_id
validate_chat_id(chat_id) ==
    LET e == UUID(chat_id)
    IN  IF e = "" THEN [exc |-> "", ok |-> TRUE]
        ELSE IF e \in {"ValueError", "TypeError"} THEN [exc |-> "", ok |-> FALSE]
        ELSE [exc |-> e, ok |-> FALSE]

(***************************************************************************)
(* Inputs                                                                  *)
(***************************************************************************)
NoEvent == EventLeaf(Absent)

Payload(ag, tid, sch, ev, ig) ==
    [t |-> "obj", v |-> "", alert_group |-> ag, team_id |-> tid, schedule |-> sch, event |-> ev, integration |-> ig]

\* a JSON document that is not an object
NonObject(x) ==
    [t |-> x.t, v |-> x.v, alert_group |-> TeamLeaf(Absent), team_id |-> Absent, schedule |-> TeamLeaf(Absent), event |-> NoEvent, integration |-> Absent]

BotId == Chat(Dashed("0"))

NoRequest ==
    [pc |-> "none", body |-> [kind |-> "json", json |-> NonObject(Null)], status |-> 0, content |-> "", detail |-> "", routed |-> FALSE]

NoTask == [pc |-> "none", ticket |-> 0, event_data |-> NonObject(Null), target_chat_id |-> NoChat, outcome |-> ""]

NotCalled == [fn |-> "none", exc |-> "", chat |-> NoChat, ok |-> FALSE]

(***************************************************************************)
(* The router as a function: one call per behaviour, on the instance that  *)
(* app/main.py builds at import                                            *)
(***************************************************************************)
InitRouter ==
    LET TeamIdVals == {Absent, Null, Str(""), Str("T1"), Str("T2"), Str("TX"), Num("0"), Num("5"), List(""), List("x"), Obj("k")}
        RouterAlertGroups ==
            {TeamLeaf(x) : x \in {Absent, Null, Str(""), Str("ag"), Num("5"), List(""), List("x")}}
                \cup {TeamObj("id", tid) : tid \in TeamIdVals} \cup {TeamObj("", Absent)}
        RouterSchedules ==
            {TeamLeaf(x) : x \in {Absent, Str("s"), List("x")}} \cup {TeamObj("name", tid) : tid \in TeamIdVals}
        RouterEvents ==
            {Payload(ag, tid, sch, NoEvent, Absent) : ag \in RouterAlertGroups, tid \in TeamIdVals, sch \in RouterSchedules}
        ChatIdInputs == {NoChat, ChA, ChB, ChF, ChBraced, ChUrn, ChHex32, ChNotUuid, ChShort, ChNonHex, ChEmpty, ChFive}
        TeamKeys == {"", "T1", "T2"}
        RouterTables == UNION {[K -> {ChA, ChB}] : K \in SUBSET TeamKeys}
        RouterRoutingConfigs == {RoutingUnset, RoutingBadJson, RoutingNonDict} \cup {RoutingDict(tbl) : tbl \in RouterTables}
        RouterSettings ==
            [chat_routing_config : RouterRoutingConfigs, target_chat_id : {NoChat, ChEmpty, ChF}, botx_bot_id : {BotId}]
    IN  /\ settings \in RouterSettings
        /\ chat_router = ChatRouter(get_chat_routing(settings), settings.target_chat_id)
        /\ _chat_router = NoRouter
        /\ constructed = 0
        /\ input \in {[fn |-> "get_chat_id", event |-> e, chat_id |-> NoChat] : e \in RouterEvents}
                      \cup {[fn |-> "validate_chat_id", event |-> NonObject(Null), chat_id |-> c] : c \in ChatIdInputs}
        /\ output = NotCalled
        /\ req = [r \in Requests |-> NoRequest]
        /\ task = [r \in Requests |-> NoTask]
        /\ sends = <<>>
        /\ delivered = <<>>

CallGetChatId ==
    /\ input.fn = "get_chat_id"
    /\ output.fn = "none"
    /\ LET res == get_chat_id(chat_router, input.event)
       IN  output' = [fn |-> "get_chat_id", exc |-> res.exc, chat |-> res.chat, ok |-> FALSE]
    /\ UNCHANGED <<settings, chat_router, _chat_router, constructed, input, req, task, sends, delivered>>

CallValidateChatId ==
    /\ input.fn = "validate_chat_id"
    /\ output.fn = "none"
    /\ LET res == validate_chat_id(input.chat_id)
       IN  output' = [fn |-> "validate_chat_id", exc |-> res.exc, chat |-> input.chat_id, ok |-> res.ok]
    /\ UNCHANGED <<settings, chat_router, _chat_router, constructed, input, req, task, sends, delivered>>

NextRouter == CallGetChatId \/ CallValidateChatId

SpecRouter == InitRouter /\ [][NextRouter]_vars

(***************************************************************************)
(* Claims about the router                                                 *)
(***************************************************************************)
\* the value a source holds when it is read as <object>.team_id
SourceTeamId(x) == IF x.t = "obj" /\ x.team_id.t # "absent" THEN x.team_id ELSE Null

\* the first non-empty team identifier in the order alert_group.team_id,
\* team_id, schedule.team_id; Null when every source is empty
FirstNonEmpty(e) ==
    LET a == SourceTeamId(e.alert_group)
        b == IF e.team_id.t = "absent" THEN Null ELSE e.team_id
        c == SourceTeamId(e.schedule)
    IN  IF Truthy(a) THEN a ELSE IF Truthy(b) THEN b ELSE IF Truthy(c) THEN c ELSE Null

RoutingTable == chat_router.routing_config

FallbackChannel == chat_router.fallback_chat_id

IsKey(x) == x.t = "str" /\ x.v \in DOMAIN RoutingTable

FallbackOrNone == IF ChatTruthy(FallbackChannel) THEN FallbackChannel ELSE NoChat

Resolved == output.fn = "get_chat_id"

\* C1: when alert_group.team_id holds a team identifier (a non-empty value)
\* that is a key of the routing table, get_chat_id returns exactly the channel
\* mapped to it, whatever the top-level team_id, schedule.team_id and the
\* fallback are.
C1_AlertGroupTeamWins ==
    (Resolved /\ Truthy(SourceTeamId(input.event.alert_group)) /\ IsKey(SourceTeamId(input.event.alert_group)))
        => (output.exc = "" /\ output.chat = RoutingTable[input.event.alert_group.team_id.v])

\* C1 witness: alert_group.team_id = T1 is mapped, the top-level team_id and
\* schedule.team_id name another mapped team with another channel, a fallback
\* is configured, and the call returned T1's channel.
C1_Witness ==
    /\ Resolved
    /\ input.event.alert_group = TeamObj("id", Str("T1"))
    /\ input.event.team_id = Str("T2")
    /\ input.event.schedule = TeamObj("name", Str("T2"))
    /\ {"T1", "T2"} \subseteq DOMAIN RoutingTable
    /\ RoutingTable["T1"] # RoutingTable["T2"]
    /\ ChatTruthy(FallbackChannel)
    /\ output.chat = RoutingTable["T1"]

\* C2: the first source with a non-empty value, in the order
\* alert_group.team_id, team_id, schedule.team_id, is the only one looked up:
\* when it is a key the result is its channel, and when it is not a key the
\* result is the fallback or none, never the channel of a lower-priority id.
C2_StrictPriority ==
    (Resolved /\ Truthy(FirstNonEmpty(input.event)))
        => /\ output.exc = ""
           /\ output.chat = IF IsKey(FirstNonEmpty(input.event))
                            THEN RoutingTable[FirstNonEmpty(input.event).v]
                            ELSE FallbackOrNone

\* C3: when the team identifier found is not a key of the routing table, or
\* none is found, get_chat_id returns the fallback when one is configured and
\* none otherwise.
C3_FallbackOrNone ==
    (Resolved /\ ~(Truthy(FirstNonEmpty(input.event)) /\ IsKey(FirstNonEmpty(input.event))))
        => (output.exc = "" /\ output.chat = FallbackOrNone)

\* C4: get_chat_id never raises, whatever the types of alert_group, team_id
\* and schedule.
C4_ResolveNeverRaises == Resolved => output.exc = ""

(***************************************************************************)
(* Timestamps: text as a sequence of characters, datetime.fromisoformat,   *)
(* datetime.astimezone and strftime, as the two formatters use them        *)
(***************************************************************************)
DigitChars == <<"0", "1", "2", "3", "4", "5", "6", "7", "8", "9">>

IsDigit(c) == \E i \in 1..10 : DigitChars[i] = c

\* whether s[i..i+n-1] exists and holds digits only
AllDigits(s, i, n) == i + n - 1 <= Len(s) /\ \A k \in i..(i + n - 1) : IsDigit(s[k])

\* the number written by the two digits at s[i], s[i+1]
Num2(s, i) ==
    LET DigitVal(c) == (CHOOSE k \in 1..10 : DigitChars[k] = c) - 1
    IN  10 * DigitVal(s[i]) + DigitVal(s[i + 1])

Num4(s, i) == 100 * Num2(s, i) + Num2(s, i + 2)

\* n as two digits, as four digits
Two(n) == <<DigitChars[(n \div 10) + 1], DigitChars[(n % 10) + 1]>>

Four(n) == Two(n \div 100) \o Two(n % 100)

RECURSIVE ReplaceZ(_)
\* ts.replace("Z", "+00:00")
ReplaceZ(s) ==
    IF s = <<>> THEN <<>>
    ELSE IF Head(s) = "Z" THEN <<"+", "0", "0", ":", "0", "0">> \o ReplaceZ(Tail(s))
    ELSE <<Head(s)>> \o ReplaceZ(Tail(s))

DaysInMonth(y, m) ==
    LET IsLeap == (y % 4 = 0 /\ y % 100 # 0) \/ y % 400 = 0
    IN  CASE m = 2 -> IF IsLeap THEN 29 ELSE 28
          [] m \in {4, 6, 9, 11} -> 30
          [] OTHER -> 31

\* a datetime: naive (aware = FALSE, off = 0) or aware with a UTC offset in
\* minutes
Datetime(y, mo, d, h, mi, sec, aware, off) ==
    [ok |-> TRUE, y |-> y, mo |-> mo, d |-> d, h |-> h, mi |-> mi, sec |-> sec, aware |-> aware, off |-> off]

NotIso == [ok |-> FALSE, y |-> 0, mo |-> 0, d |-> 0, h |-> 0, mi |-> 0, sec |-> 0, aware |-> FALSE, off |-> 0]

\* datetime.fromisoformat on the forms YYYY-MM-DD, YYYY-MM-DD?HH:MM and
\* YYYY-MM-DD?HH:MM:SS, the last two with or without a UTC offset; any other
\* text of this model raises ValueError (NotIso)
fromisoformat(s) ==
    LET \* the date part YYYY-MM-DD of s is a date of the calendar
        IsoDateOk ==
            /\ Len(s) >= 10
            /\ AllDigits(s, 1, 4) /\ s[5] = "-" /\ AllDigits(s, 6, 2) /\ s[8] = "-" /\ AllDigits(s, 9, 2)
            /\ Num4(s, 1) >= 1
            /\ Num2(s, 6) \in 1..12
            /\ Num2(s, 9) \in 1..DaysInMonth(Num4(s, 1), Num2(s, 6))
        \* a UTC offset +HH:MM or -HH:MM written at s[i..i+5], the last characters
        IsoOffsetOk(i) ==
            /\ Len(s) = i + 5
            /\ s[i] \in {"+", "-"}
            /\ AllDigits(s, i + 1, 2) /\ s[i + 3] = ":" /\ AllDigits(s, i + 4, 2)
            /\ Num2(s, i + 1) <= 23 /\ Num2(s, i + 4) <= 59
        IsoOffset(i) == (IF s[i] = "-" THEN -1 ELSE 1) * (60 * Num2(s, i + 1) + Num2(s, i + 4))
    IN  IF ~IsoDateOk THEN NotIso
        ELSE LET y == Num4(s, 1)
                 mo == Num2(s, 6)
                 d == Num2(s, 9)
                 hmOk == AllDigits(s, 12, 2) /\ Len(s) >= 16 /\ s[14] = ":" /\ AllDigits(s, 15, 2)
                            /\ Num2(s, 12) <= 23 /\ Num2(s, 15) <= 59
                 secOk == hmOk /\ Len(s) >= 19 /\ s[17] = ":" /\ AllDigits(s, 18, 2) /\ Num2(s, 18) <= 59
             IN  IF Len(s) = 10 THEN Datetime(y, mo, d, 0, 0, 0, FALSE, 0)
                 ELSE IF ~hmOk THEN NotIso
                 ELSE IF Len(s) = 16 THEN Datetime(y, mo, d, Num2(s, 12), Num2(s, 15), 0, FALSE, 0)
                 ELSE IF IsoOffsetOk(17) THEN Datetime(y, mo, d, Num2(s, 12), Num2(s, 15), 0, TRUE, IsoOffset(17))
                 ELSE IF ~secOk THEN NotIso
                 ELSE IF Len(s) = 19 THEN Datetime(y, mo, d, Num2(s, 12), Num2(s, 15), Num2(s, 18), FALSE, 0)
                 ELSE IF IsoOffsetOk(20) THEN Datetime(y, mo, d, Num2(s, 12), Num2(s, 15), Num2(s, 18), TRUE, IsoOffset(20))
                 ELSE NotIso

\* dt.astimezone(tz) for a zone at a fixed offset of `off` minutes; a naive
\* dt is taken to be in the system's zone, at `system` minutes
astimezone(dt, off, system) ==
    LET \* the day after, the day before <<y, mo, d>>
        NextDay(y, mo, d) ==
            IF d < DaysInMonth(y, mo) THEN <<y, mo, d + 1>>
            ELSE IF mo < 12 THEN <<y, mo + 1, 1>>
            ELSE <<y + 1, 1, 1>>
        PrevDay(y, mo, d) ==
            IF d > 1 THEN <<y, mo, d - 1>>
            ELSE IF mo > 1 THEN <<y, mo - 1, DaysInMonth(y, mo - 1)>>
            ELSE <<y - 1, 12, 31>>
    IN  LET from == IF dt.aware THEN dt.off ELSE system
            total == 60 * dt.h + dt.mi + (off - from)
            shift == IF total < 0 THEN -1 ELSE IF total >= 1440 THEN 1 ELSE 0
            minutes == total - 1440 * shift
            date == CASE shift = 1 -> NextDay(dt.y, dt.mo, dt.d)
                      [] shift = -1 -> PrevDay(dt.y, dt.mo, dt.d)
                      [] OTHER -> <<dt.y, dt.mo, dt.d>>
        IN  Datetime(date[1], date[2], date[3], minutes \div 60, minutes % 60, dt.sec, TRUE, off)

\* dt.strftime("%H:%M:%S %d.%m.%y")
strftime_HMS_dmy(dt) ==
    Two(dt.h) \o <<":">> \o Two(dt.mi) \o <<":">> \o Two(dt.sec) \o <<" ">>
        \o Two(dt.d) \o <<".">> \o Two(dt.mo) \o <<".">> \o Two(dt.y % 100)

\* dt.strftime("%d.%m.%Y %H:%M")
strftime_dmY_HM(dt) ==
    Two(dt.d) \o <<".">> \o Two(dt.mo) \o <<".">> \o Four(dt.y) \o <<" ">> \o Two(dt.h) \o <<":">> \o Two(dt.mi)

(***************************************************************************)
(* Event formatter (app/webhooks/formatters.py)                            *)
(***************************************************************************)
\* key k of a record read as a dict: Absent when the dict has no such key
Field(x, k) == IF k \in DOMAIN x THEN x[k] ELSE Absent

\* x.get(k) on a dict x
Dget(x, k) == Get(Field(x, k))

\* Python's `a or b`
Or(a, b) == IF Truthy(a) THEN a ELSE b

\* a string together with its characters
Ts(chars) == [t |-> "str", v |-> "ts", s |-> chars]

\* the characters of a string; a string of this model that is given without
\* its characters is one that is no timestamp
Chars(x) == IF "s" \in DOMAIN x THEN x.s ELSE <<>>

\* a non-empty list whose first element is `first`
ListOf(first) == [t |-> "list", v |-> "1", first |-> first]

\* alerts[0]; List("x") stands for the list ["x"]
First(l) == IF "first" \in DOMAIN l THEN l.first ELSE Str(l.v)

\* an event type that is used as it came
Lower_AsIs(s) == s

\* str.lower() on the event types and states of this model
Lower(s) ==
    CASE s = "Resolve" -> "resolve"
      [] s = "ESCALATION" -> "escalation"
      [] OTHER -> s

\* str.capitalize() on the event types and states of this model
Capitalize(s) ==
    CASE s = "custom" -> "Custom"
      [] OTHER -> s

status_map ==
    [k \in {"escalation", "acknowledge", "acknowledged", "unacknowledge", "unresolve", "resolve", "resolved", "silence", "unsilence", "firing"} |->
        CASE k = "escalation" -> <<"rotating_light", "Escalation">>
          [] k \in {"acknowledge", "acknowledged"} -> <<"yellow_circle", "Acknowledged">>
          [] k = "unacknowledge" -> <<"white_circle", "Unacknowledged">>
          [] k = "unresolve" -> <<"red_circle", "Reopened">>
          [] k \in {"resolve", "resolved"} -> <<"green_circle", "Resolved">>
          [] k = "silence" -> <<"no_bell", "Silenced">>
          [] k = "unsilence" -> <<"bell", "Unsilenced">>
          [] OTHER -> <<"rotating_light", "Firing">>]

\* a By line for escalation too
ByEventTypes_WithEscalation ==
    {"escalation", "acknowledge", "acknowledged", "resolve", "resolved", "unacknowledge", "unresolve", "silence", "unsilence"}

ByEventTypes == {"acknowledge", "acknowledged", "resolve", "resolved", "unacknowledge", "unresolve", "silence", "unsilence"}

\* one line of the message: what the line is and the values written in it
Line(k, x) == [line |-> k, text |-> x]

Message(lines) == [exc |-> "", text |-> lines]

MessageRaised(e) == [exc |-> e, text |-> <<>>]

\* _fmt_ts: HH:MM:SS DD.MM.YY of the parsed timestamp, the value itself when
\* it is no string or does not parse, None when it is empty
_fmt_ts(ts) ==
    IF ~Truthy(ts) THEN Null
    ELSE IF ts.t # "str" THEN ts
    ELSE LET dt == fromisoformat(ReplaceZ(Chars(ts)))
         IN  IF dt.ok THEN Ts(strftime_HMS_dmy(dt)) ELSE ts

\* `alert_payload.get("alerts") and isinstance(alert_payload["alerts"], list)
\* and alert_payload["alerts"]`
HasAlerts(alert_payload) == Truthy(Dget(alert_payload, "alerts")) /\ Dget(alert_payload, "alerts").t = "list"

\* `raw if isinstance(raw, dict) else {}`
DictOrEmpty(raw) == IF IsDict(raw) THEN raw ELSE Obj("")

StartLine(ts) == IF Truthy(ts) THEN <<Line("Start", <<_fmt_ts(ts)>>)>> ELSE <<>>

ResolveLine(ts) == IF Truthy(ts) THEN <<Line("Resolve", <<_fmt_ts(ts)>>)>> ELSE <<>>

\* a time block that shows the resolve time of an escalation as well
TimeLines_ResolveOnEscalation(event_type, alert_group, event, start_time, resolved_time) ==
    CASE event_type \in {"escalation", "resolve", "resolved"} -> StartLine(start_time) \o ResolveLine(resolved_time)
      [] event_type = "silence" ->
           StartLine(Or(Or(Dget(event, "time"), Dget(alert_group, "silenced_at")), start_time))
               \o ResolveLine(Dget(event, "until"))
      [] OTHER -> <<>>

\* lines 109-124: the Start and Resolve lines
TimeLines(event_type, alert_group, event, start_time, resolved_time) ==
    CASE event_type = "escalation" -> StartLine(start_time)
      [] event_type \in {"resolve", "resolved"} -> StartLine(start_time) \o ResolveLine(resolved_time)
      [] event_type = "silence" ->
           StartLine(Or(Or(Dget(event, "time"), Dget(alert_group, "silenced_at")), start_time))
               \o ResolveLine(Dget(event, "until"))
      [] OTHER -> <<>>

\* counts and labels for resolve events too
ShowsCounts_AlsoResolve(event_type) == event_type \in {"escalation", "resolve", "resolved"}

\* line 125: `if event_type == "escalation"`
ShowsCounts(event_type) == event_type = "escalation"

\* format_oncall_webhook_message
format_oncall_webhook_message(event_data) ==
    LET \* lines 21-29: the title; exc names the exception when one is raised
        Alertname(alert_group, alert_payload) ==
            LET first == First(Dget(alert_payload, "alerts"))
                labels == GetOrEmptyDict(Field(first, "labels"))
                n1 == IF HasAlerts(alert_payload) THEN Dget(labels, "alertname") ELSE Null
                groupLabels == Dget(alert_payload, "groupLabels")
                n2 == IF Truthy(n1) THEN n1 ELSE IF Truthy(groupLabels) THEN Dget(groupLabels, "alertname") ELSE Null
                commonLabels == Dget(alert_payload, "commonLabels")
                n3 == IF Truthy(n2) THEN n2 ELSE IF Truthy(commonLabels) THEN Dget(commonLabels, "alertname") ELSE Null
                n4 == IF Truthy(n3) THEN n3 ELSE Or(Or(Dget(alert_group, "title"), Dget(alert_group, "name")), Str(""))
            IN  IF HasAlerts(alert_payload) /\ ~IsDict(first) THEN [exc |-> "AttributeError", val |-> Null]
                ELSE IF HasAlerts(alert_payload) /\ ~IsDict(labels) THEN [exc |-> "AttributeError", val |-> Null]
                ELSE IF ~Truthy(n1) /\ Truthy(groupLabels) /\ ~IsDict(groupLabels) THEN [exc |-> "AttributeError", val |-> Null]
                ELSE IF ~Truthy(n2) /\ Truthy(commonLabels) /\ ~IsDict(commonLabels) THEN [exc |-> "AttributeError", val |-> Null]
                ELSE [exc |-> "", val |-> n4]
        \* lines 31-32: state and event_type
        StateAndType(alert_group, event) ==
            LET s0 == Or(Or(Dget(alert_group, "state"), Dget(event, "type")), Str(""))
                state == Lower(s0.v)
                t0 == Or(Or(Dget(event, "type"), Str(state)), Str(""))
            IN  IF ~Truthy(Dget(alert_group, "state")) /\ ~IsDict(event) THEN [exc |-> "AttributeError", state |-> "", event_type |-> ""]
                ELSE IF Truthy(s0) /\ s0.t # "str" THEN [exc |-> "AttributeError", state |-> "", event_type |-> ""]
                ELSE IF ~IsDict(event) THEN [exc |-> "AttributeError", state |-> "", event_type |-> ""]
                ELSE IF Truthy(t0) /\ t0.t # "str" THEN [exc |-> "AttributeError", state |-> "", event_type |-> ""]
                ELSE [exc |-> "", state |-> state, event_type |-> Lower(t0.v)]
        \* lines 52-58: the summary
        Summary(alert_payload) ==
            LET first == First(Dget(alert_payload, "alerts"))
                ann == Or(GetOrEmptyDict(Field(first, "annotations")), Obj(""))
                s1 == IF HasAlerts(alert_payload) THEN Or(Dget(ann, "summary"), Str("")) ELSE Str("")
                commonAnnotations == Dget(alert_payload, "commonAnnotations")
                s2 == IF Truthy(s1) THEN s1
                      ELSE IF Truthy(commonAnnotations) THEN Or(Dget(commonAnnotations, "summary"), Str("")) ELSE Str("")
            IN  IF HasAlerts(alert_payload) /\ ~IsDict(ann) THEN [exc |-> "AttributeError", val |-> Null]
                ELSE IF ~Truthy(s1) /\ Truthy(commonAnnotations) /\ ~IsDict(commonAnnotations) THEN [exc |-> "AttributeError", val |-> Null]
                ELSE [exc |-> "", val |-> s2]
        \* line 61: alerts_count
        AlertsCount(alert_group, alert_payload) ==
            LET \* len(x) for the values that have a length
                LenOf(x) == IF x.v = "" THEN Num("0") ELSE Num("n")
            IN  LET known == Or(Dget(alert_group, "alerts_count"), Dget(alert_payload, "numFiring"))
                    alerts == Field(alert_payload, "alerts")
                IN  IF Truthy(known) THEN [exc |-> "", val |-> known]
                    ELSE IF alerts.t = "absent" THEN [exc |-> "", val |-> Num("0")]
                    ELSE IF alerts.t \in {"null", "num"} THEN [exc |-> "TypeError", val |-> Null]
                    ELSE [exc |-> "", val |-> LenOf(alerts)]
        \* lines 80-87: start_time and resolved_time
        StartTime(alert_group, alert_payload) ==
            IF Truthy(Dget(alert_group, "created_at")) THEN Dget(alert_group, "created_at")
            ELSE IF HasAlerts(alert_payload) THEN Dget(First(Dget(alert_payload, "alerts")), "startsAt")
            ELSE Null
        ResolvedTime(alert_group) ==
            IF Truthy(Dget(alert_group, "resolved_at")) THEN Dget(alert_group, "resolved_at") ELSE Null
        \* lines 125-136: the counts line and the label blocks
        CountsAndLabels(event_type, alerts_count, alert_group, alert_payload) ==
            LET group_labels == DictOrEmpty(Or(Or(Dget(alert_payload, "groupLabels"), Dget(alert_group, "labels")), Obj("")))
                common_labels == DictOrEmpty(Or(Dget(alert_payload, "commonLabels"), Obj("")))
            IN  IF ShowsCounts(event_type)
                THEN <<Line("Alerts in group", <<alerts_count, Or(Dget(alert_payload, "numFiring"), Num("0")),
                                                 Or(Dget(alert_payload, "numResolved"), Num("0"))>>)>>
                         \o (IF Truthy(group_labels) THEN <<Line("", <<>>), Line("Group Labels", <<group_labels>>)>> ELSE <<>>)
                         \o (IF Truthy(common_labels) THEN <<Line("", <<>>), Line("Common Labels", <<common_labels>>)>> ELSE <<>>)
                ELSE <<>>
        \* lines 74-76 and 145-148: the links, shown when a base URL is configured
        Links(group_id, team_id) ==
            LET base_url == Or(Or(Get(Field(settings, "ext_grafana_url")), Get(Field(settings, "grafana_oncall_url"))), Str(""))
            IN  IF Truthy(base_url)
                THEN <<Line("View current alert group", <<base_url, group_id>>), Line("View all alert group", <<base_url, team_id>>)>>
                ELSE <<>>
    IN  LET alert_group == GetOrEmptyDict(Field(event_data, "alert_group"))
            alert_payload == GetOrEmptyDict(Field(event_data, "alert_payload"))
            event == GetOrEmptyDict(Field(event_data, "event"))
            raw_user == Dget(event_data, "user")
            user == IF IsDict(raw_user) /\ Truthy(raw_user) THEN raw_user ELSE Obj("")
            team_id == Or(Dget(alert_group, "team_id"), Dget(event_data, "team_id"))
            group_id == IF Field(alert_group, "id").t = "absent" THEN Str("N/A") ELSE Field(alert_group, "id")
            title == Alertname(alert_group, alert_payload)
            st == StateAndType(alert_group, event)
            status == IF st.event_type \in DOMAIN status_map THEN status_map[st.event_type]
                      ELSE IF st.state \in DOMAIN status_map THEN status_map[st.state]
                      ELSE <<"question", IF st.event_type # "" THEN Capitalize(st.event_type)
                                         ELSE IF st.state # "" THEN Capitalize(st.state) ELSE "Event">>
            summary == Summary(alert_payload)
            alerts_count == AlertsCount(alert_group, alert_payload)
            annotations == DictOrEmpty(Or(Dget(alert_payload, "commonAnnotations"), Obj("")))
            username == Or(Or(Dget(user, "username"), Dget(user, "email")), Str(""))
        IN  IF ~IsDict(event_data) THEN MessageRaised("AttributeError")
            ELSE IF ~IsDict(alert_group) THEN MessageRaised("AttributeError")
            ELSE IF ~IsDict(alert_payload) THEN MessageRaised("AttributeError")
            ELSE IF title.exc # "" THEN MessageRaised(title.exc)
            ELSE IF st.exc # "" THEN MessageRaised(st.exc)
            ELSE IF summary.exc # "" THEN MessageRaised(summary.exc)
            ELSE IF alerts_count.exc # "" THEN MessageRaised(alerts_count.exc)
            ELSE Message(<<Line("header", <<Str(status[1]), group_id, title.val, summary.val>>),
                           Line("Status", <<Str(status[2])>>)>>
                         \o TimeLines(st.event_type, alert_group, event,
                                      StartTime(alert_group, alert_payload), ResolvedTime(alert_group))
                         \o CountsAndLabels(st.event_type, alerts_count.val, alert_group, alert_payload)
                         \o (IF Truthy(annotations) THEN <<Line("Annotations", <<annotations>>)>> ELSE <<>>)
                         \o (IF st.event_type \in ByEventTypes THEN <<Line("", <<>>), Line("By", <<username>>)>> ELSE <<>>)
                         \o <<Line("", <<>>)>>
                         \o Links(group_id, team_id))

\* a parse_oncall_event without its try/except
parse_oncall_event_NoCatch(event_data) == format_oncall_webhook_message(event_data)

\* parse_oncall_event: the formatter's text, or a placeholder when it raises
parse_oncall_event(event_data) ==
    LET m == format_oncall_webhook_message(event_data)
    IN  IF m.exc = "" THEN m ELSE Message(<<Line("Error processing alert", <<Str(m.exc)>>)>>)

(***************************************************************************)
(* The formatter as a function: one call of parse_oncall_event per         *)
(* behaviour, on payloads with every field the formatter reads             *)
(***************************************************************************)
TsNoonZ == Ts(<<"2", "0", "2", "4", "-", "0", "1", "-", "0", "1", "T", "1", "2", ":", "0", "0", ":", "0", "0", "Z">>)

\* the instant of TsNoonZ written with Moscow's offset
TsNoonZInMoscow == Ts(<<"2", "0", "2", "4", "-", "0", "1", "-", "0", "1", "T", "1", "5", ":", "0", "0", ":", "0", "0", "+", "0", "3", ":", "0", "0">>)

TsLateOffset == Ts(<<"2", "0", "2", "4", "-", "0", "1", "-", "0", "1", "T", "2", "3", ":", "3", "0", ":", "0", "0", "+", "0", "3", ":", "0", "0">>)

TsYearEnd == Ts(<<"2", "0", "2", "4", "-", "1", "2", "-", "3", "1", "T", "2", "2", ":", "3", "0", ":", "0", "0", "Z">>)

TsNaive == Ts(<<"2", "0", "2", "4", "-", "0", "1", "-", "0", "1", "T", "1", "2", ":", "0", "0", ":", "0", "0">>)

TsDateOnly == Ts(<<"2", "0", "2", "4", "-", "0", "1", "-", "0", "2">>)

TsBadMonth == Ts(<<"2", "0", "2", "4", "-", "1", "3", "-", "0", "1", "T", "0", "0", ":", "0", "0", ":", "0", "0">>)

TsNotIso == Ts(<<"n", "o", "p", "e">>)

\* LOCAL_TIMEZONE: unset, a zone name (with the zone's UTC offset in
\* minutes), or a name that is no zone
TzUnset == [set |-> FALSE, valid |-> FALSE, utcoffset |-> 0]

TzMoscow == [set |-> TRUE, valid |-> TRUE, utcoffset |-> 180]

TzInvalid == [set |-> TRUE, valid |-> FALSE, utcoffset |-> 0]

\* a JSON object with the keys of the record `fields`
Dict(fields) == fields @@ Obj("k")

InitRender ==
    LET RenderEventTypes ==
            {Str(x) : x \in {"escalation", "ESCALATION", "resolve", "resolved", "acknowledge", "acknowledged",
                             "unacknowledge", "unresolve", "silence", "unsilence", "custom"}}
                \cup {Absent, Num("5")}
        RenderEventFields ==
            {Absent, Null, Str("x")}
                \cup {Dict([type |-> ty, time |-> Absent, until |-> Absent]) : ty \in RenderEventTypes}
                \cup {Dict([type |-> Str("silence"), time |-> tm, until |-> un]) :
                        tm \in {Absent, TsDateOnly}, un \in {TsNotIso, TsLateOffset}}
                \cup {Dict([type |-> Str("escalation"), time |-> TsDateOnly, until |-> TsLateOffset])}
        RenderAlertGroups ==
            {Null, Str("ag")}
                \cup {Dict([id |-> Str("G1"), state |-> Absent, created_at |-> c, resolved_at |-> r, silenced_at |-> sl, labels |-> Absent]) :
                        c \in {Absent, TsNoonZ, TsBadMonth, Num("12345")}, r \in {Absent, TsLateOffset}, sl \in {Absent, TsNaive}}
                \cup {Dict([id |-> Str("G1"), state |-> st, created_at |-> TsNoonZ, resolved_at |-> TsLateOffset, silenced_at |-> Absent, labels |-> Obj("l")]) :
                        st \in {Str("firing"), Str("resolved"), Str("escalation"), Num("5")}}
        AlertFull ==
            Dict([startsAt |-> TsYearEnd, labels |-> Dict([alertname |-> Str("A")]), annotations |-> Dict([summary |-> Str("S")])])
        PayloadFull ==
            Dict([alerts |-> ListOf(AlertFull), groupLabels |-> Obj("g"), commonLabels |-> Obj("c"),
                  commonAnnotations |-> Obj("a"), numFiring |-> Num("1")])
        RenderAlertPayloads ==
            {Absent, Null, Str("p"), PayloadFull,
             Dict([alerts |-> Null]),
             Dict([alerts |-> List("x")]),
             Dict([alerts |-> ListOf(Dict([labels |-> Null]))]),
             Dict([alerts |-> ListOf(Dict([annotations |-> Str("x")]))]),
             Dict([groupLabels |-> Str("x")]),
             Dict([groupLabels |-> Obj("g"), commonLabels |-> List("x")]),
             Dict([commonAnnotations |-> Str("x")])}
        RenderUsers == {Absent, Str("bob"), Dict([username |-> Str("bob")])}
        RenderPayload(ag, ap, ev, user) ==
            [t |-> "obj", v |-> "p", alert_group |-> ag, alert_payload |-> ap, event |-> ev, user |-> user, team_id |-> Absent]
        RenderPayloads ==
            {RenderPayload(ag, ap, ev, user) :
                ag \in RenderAlertGroups, ap \in RenderAlertPayloads, ev \in RenderEventFields, user \in RenderUsers}
        RenderSettings ==
            [chat_routing_config : {RoutingUnset}, target_chat_id : {NoChat}, botx_bot_id : {BotId},
             ext_grafana_url : {Null, Str("https://g/")}, grafana_oncall_url : {Null},
             local_timezone : {TzUnset, TzMoscow}]
    IN  /\ settings \in RenderSettings
        /\ chat_router = ChatRouter(get_chat_routing(settings), settings.target_chat_id)
        /\ _chat_router = NoRouter
        /\ constructed = 0
        /\ input \in {[fn |-> "parse_oncall_event", event |-> e, chat_id |-> NoChat] : e \in RenderPayloads}
        /\ output = NotCalled
        /\ req = [r \in Requests |-> NoRequest]
        /\ task = [r \in Requests |-> NoTask]
        /\ sends = <<>>
        /\ delivered = <<>>

CallParseOncallEvent ==
    /\ input.fn = "parse_oncall_event"
    /\ output.fn = "none"
    /\ LET res == parse_oncall_event(input.event)
       IN  output' = [fn |-> "parse_oncall_event", exc |-> res.exc, chat |-> NoChat, ok |-> FALSE, text |-> res.text]
    /\ UNCHANGED <<settings, chat_router, _chat_router, constructed, input, req, task, sends, delivered>>

NextRender == CallParseOncallEvent

SpecRender == InitRender /\ [][NextRender]_vars

(***************************************************************************)
(* Schedule formatters (app/webhooks/schedule_formatters.py)               *)
(***************************************************************************)
\* the offset from UTC, in minutes, of the zone the process runs in: what a
\* naive datetime means to astimezone and what datetime.now() reads
SystemOffset == input.system

\* the try block of format_shift and format_oncall_list: the timestamp as
\* DD.MM.YYYY HH:MM, in the configured zone when one is set; the except branch
\* keeps the value as it came (no string, no ISO text, no such zone)
ShiftTime(ts) ==
    IF ts.t # "str" THEN ts
    ELSE LET dt == fromisoformat(ReplaceZ(Chars(ts)))
             tz == settings.local_timezone
         IN  IF ~dt.ok THEN ts
             ELSE IF ~tz.set THEN Ts(strftime_dmY_HM(dt))
             ELSE IF ~tz.valid THEN ts
             ELSE Ts(strftime_dmY_HM(astimezone(dt, tz.utcoffset, SystemOffset)))

\* format_oncall_person: the name, and the username when there is one
format_oncall_person(person) ==
    IF ~Truthy(person) THEN Line("person", <<Str("Unknown")>>)
    ELSE LET name == Or(Dget(person, "name"), Or(Dget(person, "user_email"),
                        Or(Dget(person, "user_username"), Str("Unknown"))))
             username == Or(Dget(person, "username"), Or(Dget(person, "user_username"), Str("")))
         IN  IF Truthy(username) THEN Line("person", <<name, username>>)
             ELSE Line("person", <<name>>)

\* `shift.get("user") or {...}`: the nested user, else one built of the flat
\* fields of the shift
UserOf(shift) ==
    Or(Dget(shift, "user"),
       Dict([user_username |-> Dget(shift, "user_username"),
             user_email |-> Dget(shift, "user_email"),
             name |-> Or(Dget(shift, "user_email"), Dget(shift, "user_username"))]))

\* person.get on a user that is no dict raises AttributeError
PersonRaises(shift) == Truthy(Dget(shift, "user")) /\ ~IsDict(Dget(shift, "user"))

\* format_shift without the alias shift_start
ShiftStartAliases_NoShiftStart == <<"start", "start_time", "shift_start_time">>

\* the aliases format_shift reads for the start of the window, in order
ShiftStartAliases == <<"start", "start_time", "shift_start", "shift_start_time">>

\* shift.get(a1) or shift.get(a2) or ... or ""
RECURSIVE FirstAlias(_, _)

FirstAlias(shift, aliases) ==
    IF aliases = <<>> THEN Str("")
    ELSE Or(Dget(shift, Head(aliases)), FirstAlias(shift, Tail(aliases)))

\* format_shift: the start line and the end line, each when it has a value
format_shift(shift) ==
    LET ShiftEndAliases == <<"end", "end_time", "shift_end", "shift_end_time">>
    IN  LET start_time == FirstAlias(shift, ShiftStartAliases)
            end_time == FirstAlias(shift, ShiftEndAliases)
        IN  (IF Truthy(start_time) THEN <<Line("shift start", <<ShiftTime(start_time)>>)>> ELSE <<>>)
            \o (IF Truthy(end_time) THEN <<Line("shift end", <<ShiftTime(end_time)>>)>> ELSE <<>>)

\* the header lines format_current_oncall and format_oncall_list begin with
ScheduleHeader(schedule_name, title) ==
    (IF Truthy(schedule_name) THEN <<Line("schedule", <<schedule_name>>)>> ELSE <<>>)
        \o <<Line(title, <<>>), Line("", <<>>)>>

format_current_oncall(shift_data, schedule_name) ==
    IF PersonRaises(shift_data) THEN MessageRaised("AttributeError")
    ELSE LET shift_info == format_shift(shift_data)
         IN  Message(ScheduleHeader(schedule_name, "current oncall")
                        \o <<format_oncall_person(UserOf(shift_data))>>
                        \o (IF shift_info # <<>> THEN <<Line("", <<>>)>> \o shift_info ELSE <<>>))

\* max_items of format_oncall_list when the caller gives none
DefaultMaxItems == 5

\* the loop of format_oncall_list over shifts i..n: the numbered assignee, and
\* the start of the shift when one of the aliases the list reads has a value
RECURSIVE ListItems(_, _, _)

ListItems(shifts_data, i, n) ==
    LET shift == shifts_data[i]
        start_time == FirstAlias(shift, <<"start", "start_time", "shift_start">>)
    IN  IF i > n THEN <<>>
        ELSE <<Line("item", <<i>> \o format_oncall_person(UserOf(shift)).text)>>
                \o (IF Truthy(start_time) THEN <<Line("item start", <<ShiftTime(start_time)>>)>> ELSE <<>>)
                \o ListItems(shifts_data, i + 1, n)

format_oncall_list(shifts_data, schedule_name, max_items) ==
    LET shown == IF Len(shifts_data) < max_items THEN Len(shifts_data) ELSE max_items
    IN  IF shifts_data = <<>> THEN Message(<<Line("no oncall data", <<>>)>>)
        ELSE IF \E i \in 1..shown : PersonRaises(shifts_data[i]) THEN MessageRaised("AttributeError")
        ELSE Message(ScheduleHeader(schedule_name, "oncall queue")
                        \o ListItems(shifts_data, 1, shown)
                        \o (IF Len(shifts_data) > max_items
                            THEN <<Line("", <<>>), Line("more", <<Len(shifts_data) - max_items>>)>> ELSE <<>>))

\* _name of format_oncall_day_summary
_name(shift) ==
    LET user == Or(Dget(shift, "user"), Obj(""))
    IN  Or(Dget(user, "name"), Or(Dget(shift, "user_username"), Or(Dget(shift, "user_email"),
            Or(Dget(user, "user_username"), Or(Dget(user, "user_email"), Str("Unknown"))))))

\* _hm of format_oncall_day_summary, called with a zone that exists or with
\* none: HH:MM in the configured zone; of a text that does not parse, its
\* characters 12..16 when they are a clock time, else the text
_hm(ts) ==
    LET \* `len(ts) >= 16 and ts[11:16].replace(':','').isdigit()`
        HasClockText(s) ==
            /\ Len(s) >= 16
            /\ LET digits == SelectSeq(SubSeq(s, 12, 16), LAMBDA c : c # ":")
               IN  digits # <<>> /\ \A k \in 1..Len(digits) : IsDigit(digits[k])
        \* dt.strftime("%H:%M")
        strftime_HM(dt) == Two(dt.h) \o <<":">> \o Two(dt.mi)
    IN  IF ~Truthy(ts) THEN Str("")
        ELSE LET dt == fromisoformat(ReplaceZ(Chars(ts)))
                 tz == settings.local_timezone
             IN  IF dt.ok
                 THEN Ts(strftime_HM(IF tz.set THEN astimezone(dt, tz.utcoffset, SystemOffset) ELSE dt))
                 ELSE IF HasClockText(Chars(ts)) THEN Ts(SubSeq(Chars(ts), 12, 16))
                 ELSE ts

\* format_oncall_day_summary: ZoneInfo of a zone that does not exist raises
\* before anything is rendered; today's date is read from the clock, in the
\* configured zone or else in the system's
format_oncall_day_summary(shifts_data) ==
    LET \* the aliases format_oncall_day_summary reads
        DayStartAliases == <<"shift_start", "start", "start_time">>
        DayEndAliases == <<"shift_end", "end", "end_time">>
        \* the line of one shift in the day summary
        DayLine(shift) ==
            Line("day shift", <<_name(shift), _hm(FirstAlias(shift, DayStartAliases)), _hm(FirstAlias(shift, DayEndAliases))>>)
        \* inside _hm a value that is no string raises again in the except branch
        \* (len or slicing), and _name raises on a user that is no dict
        DayLineRaises(shift) ==
            \/ PersonRaises(shift)
            \/ \E ts \in {FirstAlias(shift, DayStartAliases), FirstAlias(shift, DayEndAliases)} :
                   Truthy(ts) /\ ts.t # "str"
        \* dt.strftime('%d.%m.%Y')
        strftime_dmY(dt) == Two(dt.d) \o <<".">> \o Two(dt.mo) \o <<".">> \o Four(dt.y)
    IN  LET tz == settings.local_timezone
            now_dt == astimezone(input.now, IF tz.set THEN tz.utcoffset ELSE SystemOffset, SystemOffset)
            header == IF Len(shifts_data) = 1 THEN "one engineer" ELSE "engineers"
            top == <<Line("today", <<Ts(strftime_dmY(now_dt))>>), Line(header, <<>>)>>
        IN  IF tz.set /\ ~tz.valid THEN MessageRaised("ZoneInfoNotFoundError")
            ELSE IF shifts_data = <<>> THEN Message(top \o <<Line("no data", <<>>)>>)
            ELSE IF \E i \in 1..Len(shifts_data) : DayLineRaises(shifts_data[i]) THEN MessageRaised("TypeError")
            ELSE Message(top \o [i \in 1..Len(shifts_data) |-> DayLine(shifts_data[i])])

\* the clock at the call: late on 31.12.2024 in UTC, 01.01.2025 in Moscow
Clock == fromisoformat(ReplaceZ(Chars(TsYearEnd)))

InitSchedule ==
    LET \* --- the renderers as functions: one call per behaviour --------------------
        \* the alias names a scheduler API may use for the window of a shift
        AliasSchemes ==
            {<<"start", "end">>, <<"start_time", "end_time">>, <<"shift_start", "shift_end">>,
             <<"shift_start_time", "shift_end_time">>}
        ShiftStarts == {TsNoonZ, TsNoonZInMoscow, TsNaive, TsBadMonth}
        ShiftEnds == {Absent, TsLateOffset, TsNotIso}
        \* the assignee nested under user, as flat fields of the shift, or missing
        ShiftUsers ==
            {[user |-> Dict([name |-> Str("Bob"), username |-> Str("bob")])],
             [user_username |-> Str("bob"), user_email |-> Str("bob@example.org")],
             [user |-> Null]}
        \* a ShiftRecord with its window under the aliases of one scheme
        Shift(scheme, start, end, user) ==
            Dict((scheme[1] :> start) @@ (scheme[2] :> end) @@ user)
        \* and one that carries two aliases of the start, with different values
        ShiftRecords(user) ==
            {Shift(scheme, start, end, user) : scheme \in AliasSchemes, start \in ShiftStarts, end \in ShiftEnds}
                \cup {Dict([start_time |-> TsNoonZ, shift_start |-> TsNaive, end_time |-> TsLateOffset] @@ user)}
        \* the lists of at most two shifts
        ShiftLists ==
            UNION {{<<>>} \cup {<<a>> : a \in ShiftRecords(u)} \cup (ShiftRecords(u) \X ShiftRecords(u)) : u \in ShiftUsers}
        ScheduleCalls ==
            [fn : {"format_current_oncall"}, shifts_data : ShiftLists, schedule_name : {Str("")},
             max_items : {DefaultMaxItems}, system : {0}, now : {Clock}]
            \cup [fn : {"format_oncall_list"}, shifts_data : ShiftLists, schedule_name : {Str("Ops")},
                  max_items : {1, DefaultMaxItems}, system : {0}, now : {Clock}]
            \cup [fn : {"format_oncall_day_summary"}, shifts_data : ShiftLists, schedule_name : {Str("")},
                  max_items : {DefaultMaxItems}, system : {0}, now : {Clock}]
        ScheduleSettings ==
            [chat_routing_config : {RoutingUnset}, target_chat_id : {NoChat}, botx_bot_id : {BotId},
             ext_grafana_url : {Null}, grafana_oncall_url : {Null},
             local_timezone : {TzUnset, TzMoscow, TzInvalid}]
        \* the process runs in UTC or in Moscow's zone; no renderer reads the system's
        \* zone when the configured one does not exist
        SystemOffsets(tz) == IF tz = TzInvalid THEN {0} ELSE {0, TzMoscow.utcoffset}
    IN  /\ settings \in ScheduleSettings
        /\ chat_router = ChatRouter(get_chat_routing(settings), settings.target_chat_id)
        /\ _chat_router = NoRouter
        /\ constructed = 0
        /\ input \in {[c EXCEPT !.system = s] : c \in ScheduleCalls, s \in SystemOffsets(settings.local_timezone)}
        /\ output = NotCalled
        /\ req = [r \in Requests |-> NoRequest]
        /\ task = [r \in Requests |-> NoTask]
        /\ sends = <<>>
        /\ delivered = <<>>

\* format_current_oncall renders one shift: it is called on each shift of the
\* input in turn
CallFormatCurrentOncall ==
    /\ input.fn = "format_current_oncall"
    /\ output.fn = "none"
    /\ output' = [fn |-> "format_current_oncall",
                  each |-> [i \in 1..Len(input.shifts_data) |->
                                format_current_oncall(input.shifts_data[i], input.schedule_name)]]
    /\ UNCHANGED <<settings, chat_router, _chat_router, constructed, input, req, task, sends, delivered>>

CallFormatOncallList ==
    /\ input.fn = "format_oncall_list"
    /\ output.fn = "none"
    /\ LET res == format_oncall_list(input.shifts_data, input.schedule_name, input.max_items)
       IN  output' = [fn |-> "format_oncall_list", exc |-> res.exc, text |-> res.text]
    /\ UNCHANGED <<settings, chat_router, _chat_router, constructed, input, req, task, sends, delivered>>

CallFormatOncallDaySummary ==
    /\ input.fn = "format_oncall_day_summary"
    /\ output.fn = "none"
    /\ LET res == format_oncall_day_summary(input.shifts_data)
       IN  output' = [fn |-> "format_oncall_day_summary", exc |-> res.exc, text |-> res.text]
    /\ UNCHANGED <<settings, chat_router, _chat_router, constructed, input, req, task, sends, delivered>>

NextSchedule ==
    \/ CallFormatCurrentOncall
    \/ CallFormatOncallList
    \/ CallFormatOncallDaySummary

SpecSchedule == InitSchedule /\ [][NextSchedule]_vars

(***************************************************************************)
(* Webhook ingest pipeline (app/webhooks/handlers.py)                      *)
(***************************************************************************)
Undecodable == [kind |-> "undecodable", json |-> NonObject(Null)]

Malformed == [kind |-> "malformed", json |-> NonObject(Null)]

Json(doc) == [kind |-> "json", json |-> doc]

NewRequest(b) == [pc |-> "new", body |-> b, status |-> 0, content |-> "", detail |-> "", routed |-> FALSE]

\* _initialize_router: the instance it assigns to _chat_router
_initialize_router == ChatRouter(get_chat_routing(settings), settings.target_chat_id)

\* a get_router without its check: every call constructs
RouterIsNone_Always == TRUE

\* `if _chat_router is None`
RouterIsNone == ~_chat_router.built

\* a get_router that drops the fallback of the router it reuses
get_router_ForgetsFallback ==
    IF RouterIsNone THEN _initialize_router ELSE [_chat_router EXCEPT !.fallback_chat_id = NoChat]

\* get_router: the router the handler works with.  The function has no await,
\* so its test and its assignment are one step of the event loop.
get_router == IF RouterIsNone THEN _initialize_router ELSE _chat_router

\* the handler's return: the JSONResponse, whether get_router was called, and
\* the background task it created, if any
Response(status, detail, routed, tk) ==
    [status |-> status, content |-> IF status = 202 THEN "accepted" ELSE "error", detail |-> detail, routed |-> routed, task |-> tk]

\* an exception that leaves the handler: the request gets no response of the
\* handler's
InternalError_Escapes(routed) == [status |-> 0, content |-> "", detail |-> "", routed |-> routed, task |-> NoTask]

InternalError(routed) == Response(500, "internal error", routed, NoTask)

\* a task handed the fallback channel instead of the validated destination
ScheduledTask_ToFallback(event_data, target_chat_id) ==
    [pc |-> "scheduled", ticket |-> 1 + Cardinality({q \in Requests : task[q].pc # "none"}),
     event_data |-> event_data, target_chat_id |-> settings.target_chat_id, outcome |-> ""]

\* asyncio.create_task: the task joins the loop's ready queue behind the tasks
\* created before it (ticket is its place in the order of creation)
ScheduledTask(event_data, target_chat_id) ==
    [pc |-> "scheduled", ticket |-> 1 + Cardinality({q \in Requests : task[q].pc # "none"}),
     event_data |-> event_data, target_chat_id |-> target_chat_id, outcome |-> ""]

\* a handler that lets a payload without alert_group through
MissingAlertGroup_Never(event_data) == FALSE

\* `if not event_data.get("alert_group")`
MissingAlertGroup(event_data) == ~TeamTruthy(event_data.alert_group)

\* the body of handle_oncall_webhook after `await request.body()`
HandleBody(body) ==
    LET event_data == body.json
        router == get_router
        target == get_chat_id(router, event_data)
        valid == validate_chat_id(target.chat)
    IN  IF body.kind = "undecodable" THEN InternalError(FALSE)
        ELSE IF body.kind = "malformed" THEN Response(400, "Invalid JSON", FALSE, NoTask)
        ELSE IF ~IsDict(event_data) THEN Response(400, "Invalid payload", FALSE, NoTask)
        ELSE IF MissingAlertGroup(event_data) THEN Response(400, "Missing alert_group", FALSE, NoTask)
        ELSE IF ~IsDict(GetEvent(event_data.event)) THEN InternalError(FALSE)
        ELSE IF ~IsDict(GetAlertGroup(event_data.alert_group)) THEN InternalError(FALSE)
        ELSE IF target.exc # "" THEN InternalError(TRUE)
        ELSE IF ~ChatTruthy(target.chat)
             THEN IF ~IsDict(GetOrEmptyDict(event_data.integration)) THEN InternalError(TRUE)
                  ELSE Response(500, "Cannot determine target chat (no routing configuration or fallback)", TRUE, NoTask)
        ELSE IF valid.exc # "" THEN InternalError(TRUE)
        ELSE IF ~valid.ok THEN Response(500, "Invalid target chat_id", TRUE, NoTask)
        ELSE IF ~IsDict(GetOrEmptyDict(event_data.integration)) THEN InternalError(TRUE)
        ELSE Response(202, "Event is being processed", TRUE, ScheduledTask(event_data, target.chat))

\* handle_oncall_webhook: one request, from its body to its response
handle_oncall_webhook(r) ==
    /\ req[r].pc = "new"
    /\ LET res == HandleBody(req[r].body)
       IN  /\ req' = [req EXCEPT ![r] = [pc |-> "responded", body |-> @.body, status |-> res.status,
                                         content |-> res.content, detail |-> res.detail, routed |-> res.routed]]
           /\ task' = [task EXCEPT ![r] = res.task]
           /\ _chat_router' = IF res.routed THEN get_router ELSE _chat_router
           /\ constructed' = IF res.routed /\ RouterIsNone THEN constructed + 1 ELSE constructed
    /\ UNCHANGED <<settings, chat_router, input, output, sends, delivered>>

\* process_oncall_event_async up to its await: render, then hand the message
\* to bot.send_message.  The loop starts tasks in the order of their creation.
process_oncall_event_async(r) ==
    /\ task[r].pc = "scheduled"
    /\ \A q \in Requests : task[q].pc = "scheduled" => task[q].ticket >= task[r].ticket
    /\ LET event_data == task[r].event_data
           ty == Get(GetEvent(event_data.event).type)
           alert_message == parse_oncall_event(event_data)
       IN  IF (Truthy(ty) /\ ty.t # "str") \/ alert_message.exc # ""
           THEN /\ task' = [task EXCEPT ![r].pc = "done", ![r].outcome = "error logged"]
                /\ sends' = sends
           ELSE IF alert_message.text = <<>>
           THEN /\ task' = [task EXCEPT ![r].pc = "done", ![r].outcome = "skipped"]
                /\ sends' = sends
           ELSE IF UUID(settings.botx_bot_id) # "" \/ UUID(task[r].target_chat_id) # ""
           THEN /\ task' = [task EXCEPT ![r].pc = "done", ![r].outcome = "send failed"]
                /\ sends' = sends
           ELSE /\ task' = [task EXCEPT ![r].pc = "sending"]
                /\ sends' = Append(sends, [req |-> r, chat_id |-> task[r].target_chat_id, body |-> alert_message.text])
    /\ UNCHANGED <<settings, chat_router, _chat_router, constructed, input, output, req, delivered>>

\* a delivery that waits for the sends of the tasks created before it
SendReturns_InOrder(r) ==
    /\ task[r].pc = "sending"
    /\ \A q \in Requests : (task[q].pc # "none" /\ task[q].ticket < task[r].ticket) => task[q].pc = "done"
    /\ task' = [task EXCEPT ![r].pc = "done", ![r].outcome = "sent"]
    /\ delivered' = Append(delivered, r)
    /\ UNCHANGED <<settings, chat_router, _chat_router, constructed, input, output, req, sends>>

\* bot.send_message returns: the message was delivered.  When several sends
\* are at their await, any of them may return first.
SendReturns(r) ==
    /\ task[r].pc = "sending"
    /\ task' = [task EXCEPT ![r].pc = "done", ![r].outcome = "sent"]
    /\ delivered' = Append(delivered, r)
    /\ UNCHANGED <<settings, chat_router, _chat_router, constructed, input, output, req, sends>>

\* a task that tries again after a failed send
SendRaises_Retry(r) ==
    /\ task[r].pc = "sending"
    /\ task' = [task EXCEPT ![r].pc = "scheduled"]
    /\ UNCHANGED <<settings, chat_router, _chat_router, constructed, input, output, req, sends, delivered>>

\* bot.send_message raises: the failure is logged inside the task
SendRaises(r) ==
    /\ task[r].pc = "sending"
    /\ task' = [task EXCEPT ![r].pc = "done", ![r].outcome = "send failed"]
    /\ UNCHANGED <<settings, chat_router, _chat_router, constructed, input, output, req, sends, delivered>>

\* one webhook request at a time, with every body and configuration
InitIngest ==
    LET IngestTeamIds == {Absent, Str(""), Str("T1"), Str("TX"), Num("5"), List("x")}
        IngestAlertGroups ==
            {TeamLeaf(x) : x \in {Absent, Null, Str("ag"), List("x")}}
                \cup {TeamObj("id", tid) : tid \in IngestTeamIds} \cup {TeamObj("", Absent), TeamObj("", Str("T1"))}
        IngestSchedules == {TeamLeaf(Absent), TeamObj("name", Str("T1"))}
        IngestEvents ==
            {EventLeaf(x) : x \in {Absent, Null}}
                \cup {EventObj("", ty) : ty \in {Absent, Str("escalation"), Str("Resolve"), Str("custom"), Num("5"), List("x")}}
        IngestIntegrations == {Absent, Null, Obj("name")}
        IngestBodies ==
            {Undecodable, Malformed} \cup {Json(NonObject(x)) : x \in {Null, Str("s"), Num("5"), List("x")}}
                \cup {Json(Payload(ag, tid, sch, ev, ig)) :
                        ag \in IngestAlertGroups, tid \in {Absent, Str("T2")}, sch \in IngestSchedules,
                        ev \in IngestEvents, ig \in IngestIntegrations}
        IngestTables ==
            {[k \in {"T1"} |-> c] : c \in {ChA, ChBraced, ChNotUuid, ChShort, ChEmpty, ChFive, NoChat}}
                \cup {[k \in {"T1", "T2"} |-> IF k = "T1" THEN ChA ELSE ChB], [k \in {"T2"} |-> ChB], EmptyTable}
        IngestSettings ==
            [chat_routing_config : {RoutingUnset} \cup {RoutingDict(tbl) : tbl \in IngestTables},
             target_chat_id : {NoChat, ChEmpty, ChF, ChNotUuid},
             botx_bot_id : {BotId}]
    IN  /\ settings \in IngestSettings
        /\ chat_router = ChatRouter(get_chat_routing(settings), settings.target_chat_id)
        /\ _chat_router = NoRouter
        /\ constructed = 0
        /\ input = [fn |-> "none", event |-> NonObject(Null), chat_id |-> NoChat]
        /\ output = NotCalled
        /\ \E b \in IngestBodies : req = [r \in Requests |-> IF r = 1 THEN NewRequest(b) ELSE NoRequest]
        /\ task = [r \in Requests |-> NoTask]
        /\ sends = <<>>
        /\ delivered = <<>>

NextIngest ==
    \E r \in Requests :
        \/ handle_oncall_webhook(r)
        \/ process_oncall_event_async(r)
        \/ SendReturns(r)
        \/ SendRaises(r)

SpecIngest == InitIngest /\ [][NextIngest]_vars

(***************************************************************************)
(* Several webhook requests in flight at once: every request is handled    *)
(* in one step after its body is read, and the background tasks interleave *)
(* with the handlers and with one another                                  *)
(***************************************************************************)
InitConcurrent ==
    LET ConcurrentBodies ==
            {Malformed,
             Json(Payload(TeamLeaf(Absent), Str("T1"), TeamLeaf(Absent), NoEvent, Absent)),
             Json(Payload(TeamObj("id", Str("T1")), Absent, TeamLeaf(Absent), EventObj("", Str("escalation")), Absent)),
             Json(Payload(TeamObj("id", Str("TX")), Absent, TeamLeaf(Absent), EventObj("", Str("Resolve")), Absent))}
        ConcurrentSettings ==
            [chat_routing_config : {RoutingUnset, RoutingDict([k \in {"T1"} |-> ChA])},
             target_chat_id : {NoChat, ChF},
             botx_bot_id : {BotId}]
    IN  /\ settings \in ConcurrentSettings
        /\ chat_router = ChatRouter(get_chat_routing(settings), settings.target_chat_id)
        /\ _chat_router = NoRouter
        /\ constructed = 0
        /\ input = [fn |-> "none", event |-> NonObject(Null), chat_id |-> NoChat]
        /\ output = NotCalled
        /\ req \in [Requests -> {NewRequest(b) : b \in ConcurrentBodies}]
        /\ task = [r \in Requests |-> NoTask]
        /\ sends = <<>>
        /\ delivered = <<>>

SpecConcurrent == InitConcurrent /\ [][NextIngest]_vars

(***************************************************************************)
(* Schedule queries (app/main.py, app/grafana/scheduler.py,                *)
(* app/bot/helpers.py)                                                     *)
(***************************************************************************)
\* a JSON list with its items
JList(items) == [t |-> "list", v |-> IF items = <<>> THEN "" ELSE "n", items |-> items]

\* what Grafana OnCall answers a GET with: a JSON document, or a failure
\* (no connection, a status that raise_for_status rejects, a body that is no
\* JSON)
Answer(doc) == [kind |-> "json", json |-> doc]

HttpError == [kind |-> "error", json |-> Null]

\* a fetch that asks for the URL only
ConfigurationError_UrlOnly ==
    IF ~Truthy(settings.grafana_oncall_url) THEN "GRAFANA_ONCALL_URL not configured" ELSE ""

\* the two checks every fetch begins with: the message of the RuntimeError
\* they raise, "" when both the URL and the token are set
ConfigurationError ==
    IF ~Truthy(settings.grafana_oncall_url) THEN "GRAFANA_ONCALL_URL not configured"
    ELSE IF ~Truthy(settings.grafana_oncall_token) THEN "GRAFANA_ONCALL_TOKEN not configured"
    ELSE ""

\* a fetch: the exception it raises, the document it returns, and the number
\* of GET requests it made
Fetched(exc, data, calls) == [exc |-> exc, data |-> data, calls |-> calls]

\* fetch_schedule_info: the schedule's metadata
fetch_schedule_info(reply) ==
    IF ConfigurationError # "" THEN Fetched("RuntimeError", Null, 0)
    ELSE IF reply.kind = "error" THEN Fetched("HTTPError", Null, 1)
    ELSE Fetched("", reply.json, 1)

\* fetch_current_oncall: the final shifts of the schedule
fetch_current_oncall(reply) ==
    IF ConfigurationError # "" THEN Fetched("RuntimeError", Null, 0)
    ELSE IF reply.kind = "error" THEN Fetched("HTTPError", Null, 1)
    ELSE Fetched("", reply.json, 1)

\* fetch_all_schedules: the list under results, schedules or data, or the
\* document itself when it is a list, else an empty list
fetch_all_schedules(reply) ==
    LET data == reply.json
    IN  IF ConfigurationError # "" THEN Fetched("RuntimeError", Null, 0)
        ELSE IF reply.kind = "error" THEN Fetched("HTTPError", Null, 1)
        ELSE IF IsDict(data) /\ Field(data, "results").t # "absent" THEN Fetched("", data.results, 1)
        ELSE IF IsDict(data) /\ Field(data, "schedules").t # "absent" THEN Fetched("", data.schedules, 1)
        ELSE IF IsDict(data) /\ Field(data, "data").t = "list" THEN Fetched("", data.data, 1)
        ELSE IF data.t = "list" THEN Fetched("", data, 1)
        ELSE Fetched("", JList(<<>>), 1)

\* what a send helper did: the value it returned, and its invocations of
\* bot.send_message
Sent(ok, invoked) == [ok |-> ok, invoked |-> invoked]

\* send_message_to_chat: False for a chat id or bot id that is no UUID and
\* for a bot.send_message that raised, True when bot.send_message returned
send_message_to_chat(chat_id, text) ==
    IF UUID(chat_id) # "" THEN Sent(FALSE, <<>>)
    ELSE IF UUID(settings.botx_bot_id) # "" THEN Sent(FALSE, <<>>)
    ELSE Sent(~input.send_raises, <<[req |-> 0, chat_id |-> chat_id, body |-> text]>>)

\* send_formatted_oncall_to_chat: the single-shift form, sent; False when
\* the renderer raised
send_formatted_oncall_to_chat(chat_id, schedule_name, shift_data) ==
    LET Send(text) == IF text.exc # "" THEN Sent(FALSE, <<>>) ELSE send_message_to_chat(chat_id, text.text)
    IN  Send(format_current_oncall(shift_data, schedule_name))

\* the JSONResponse of a query endpoint, with the GET requests made for it,
\* whether a destination was resolved, and the sends invoked
QueryResponse(status, detail, shifts_count, shifts, sent_to_chat, calls, resolved, invoked) ==
    [status |-> status, detail |-> detail, shifts_count |-> shifts_count, shifts |-> shifts,
     sent_to_chat |-> sent_to_chat, calls |-> calls, resolved |-> resolved, invoked |-> invoked]

\* the except branch of a query endpoint
QueryError(calls, resolved, invoked) ==
    QueryResponse(500, "Internal server error", 0, <<>>, FALSE, calls, resolved, invoked)

\* `{"team_id": team_id} if team_id else {}`
TeamEvent(team_id) ==
    Payload(TeamLeaf(Absent), IF Truthy(team_id) THEN team_id ELSE Absent, TeamLeaf(Absent), NoEvent, Absent)

\* an endpoint that never finds the list of shifts empty
NoShifts_Never(shifts) == FALSE

\* `if not shifts`
NoShifts(shifts) == ~Truthy(shifts)

\* an endpoint that sends the day summary for a single shift too
SeveralShifts_OneOrMore(shifts) == Len(shifts.items) >= 1

\* `len(shifts) > 1`
SeveralShifts(shifts) == Len(shifts.items) > 1

\* the body of get_current_oncall_http
CurrentOncall ==
    LET info == fetch_schedule_info(input.schedule_info)
        schedule_info == info.data
        schedule_name == IF Field(schedule_info, "name").t = "absent" THEN Str("Unknown") ELSE schedule_info.name
        team_id == Dget(schedule_info, "team_id")
        fetched == fetch_current_oncall(input.final_shifts)
        shift_data == fetched.data
        calls == info.calls + fetched.calls
        shifts ==
            IF IsDict(shift_data)
            THEN IF Field(shift_data, "results").t = "list" THEN shift_data.results
                 ELSE IF Field(shift_data, "shifts").t # "absent" THEN shift_data.shifts
                 ELSE JList(<<>>)
            ELSE IF shift_data.t = "list" THEN shift_data
            ELSE JList(<<>>)
        \* the response after the send helper returned
        Respond(sent) == QueryResponse(200, "", Len(shifts.items), shifts.items, sent.ok, calls, TRUE, sent.invoked)
        \* the day summary, sent; an exception of the renderer is logged
        SendSummary(target_chat_id, text) ==
            IF text.exc # "" THEN Sent(FALSE, <<>>) ELSE send_message_to_chat(target_chat_id, text.text)
        \* `if send_to_chat:` with the destination the router returned
        SendToChat(target) ==
            IF target.exc # "" THEN QueryError(calls, TRUE, <<>>)
            ELSE IF ~ChatTruthy(target.chat) THEN Respond(Sent(FALSE, <<>>))
            ELSE IF SeveralShifts(shifts) THEN Respond(SendSummary(target.chat, format_oncall_day_summary(shifts.items)))
            ELSE Respond(send_formatted_oncall_to_chat(target.chat, schedule_name, shifts.items[1]))
    IN  IF ~Truthy(input.schedule_id) THEN QueryResponse(400, "schedule_id is required", 0, <<>>, FALSE, 0, FALSE, <<>>)
        ELSE IF info.exc # "" THEN QueryError(info.calls, FALSE, <<>>)
        ELSE IF ~IsDict(schedule_info) THEN QueryError(info.calls, FALSE, <<>>)
        ELSE IF fetched.exc # "" THEN QueryError(calls, FALSE, <<>>)
        ELSE IF NoShifts(shifts) THEN QueryResponse(404, "No shifts found", 0, <<>>, FALSE, calls, FALSE, <<>>)
        ELSE IF shifts.t # "list" \/ shifts.items = <<>> THEN QueryError(calls, FALSE, <<>>)
        ELSE IF ~input.send_to_chat THEN QueryResponse(200, "", Len(shifts.items), shifts.items, FALSE, calls, FALSE, <<>>)
        ELSE SendToChat(get_chat_id(chat_router, TeamEvent(team_id)))

\* the body of get_oncall_shifts_http, for a reply that carries a list or
\* null under results / shifts.  target_chat_id is bound only inside
\* `if send_to_chat and shifts`; the response reads it whenever send_to_chat
\* is set, and reading it unbound raises UnboundLocalError; len(None) raises
\* TypeError.
OncallShifts ==
    LET info == fetch_schedule_info(input.schedule_info)
        schedule_info == info.data
        team_id == Dget(schedule_info, "team_id")
        fetched == fetch_current_oncall(input.final_shifts)
        shifts_data == fetched.data
        calls == info.calls + fetched.calls
        shifts ==
            IF IsDict(shifts_data)
            THEN IF Field(shifts_data, "results").t # "absent" THEN shifts_data.results
                 ELSE IF Field(shifts_data, "shifts").t # "absent" THEN shifts_data.shifts
                 ELSE JList(<<>>)
            ELSE IF shifts_data.t = "list" THEN shifts_data
            ELSE JList(<<>>)
        shown == IF Len(shifts.items) > 10 THEN SubSeq(shifts.items, 1, 10) ELSE shifts.items
        \* the response, after the sends `invoked`, with target_chat_id bound
        Respond(target_chat_id, invoked) ==
            QueryResponse(200, "", Len(shifts.items), shown, ChatTruthy(target_chat_id), calls, TRUE, invoked)
        \* the day summary, sent whatever the helper returns; an exception of
        \* the renderer leaves the handler
        SendSummary(target_chat_id, text) ==
            IF text.exc # "" THEN QueryError(calls, TRUE, <<>>)
            ELSE Respond(target_chat_id, send_message_to_chat(target_chat_id, text.text).invoked)
        \* `if send_to_chat and shifts:` with the destination the router returned
        SendToChat(target) ==
            IF target.exc # "" THEN QueryError(calls, TRUE, <<>>)
            ELSE IF ~ChatTruthy(target.chat) THEN Respond(target.chat, <<>>)
            ELSE SendSummary(target.chat, format_oncall_day_summary(shifts.items))
    IN  IF ~Truthy(input.schedule_id) THEN QueryResponse(400, "schedule_id is required", 0, <<>>, FALSE, 0, FALSE, <<>>)
        ELSE IF info.exc # "" THEN QueryError(info.calls, FALSE, <<>>)
        ELSE IF ~IsDict(schedule_info) THEN QueryError(info.calls, FALSE, <<>>)
        ELSE IF fetched.exc # "" THEN QueryError(calls, FALSE, <<>>)
        ELSE IF input.send_to_chat /\ Truthy(shifts) THEN SendToChat(get_chat_id(chat_router, TeamEvent(team_id)))
        ELSE IF shifts.t # "list" THEN QueryError(calls, FALSE, <<>>)
        ELSE IF input.send_to_chat THEN QueryError(calls, FALSE, <<>>)
        ELSE QueryResponse(200, "", Len(shifts.items), shown, FALSE, calls, FALSE, <<>>)

\* GET /api/oncall/current: one request, from its parameters to its response
get_current_oncall_http ==
    /\ input.fn = "get_current_oncall_http"
    /\ output.fn = "none"
    /\ \E res \in {CurrentOncall} :
           /\ output' = [fn |-> "get_current_oncall_http"] @@ res
           /\ sends' = sends \o res.invoked
    /\ UNCHANGED <<settings, chat_router, _chat_router, constructed, input, req, task, delivered>>

\* GET /api/oncall/shifts
get_oncall_shifts_http ==
    /\ input.fn = "get_oncall_shifts_http"
    /\ output.fn = "none"
    /\ \E res \in {OncallShifts} :
           /\ output' = [fn |-> "get_oncall_shifts_http"] @@ res
           /\ sends' = sends \o res.invoked
    /\ UNCHANGED <<settings, chat_router, _chat_router, constructed, input, req, task, delivered>>

\* a call of fetch_all_schedules
CallFetchAllSchedules ==
    /\ input.fn = "fetch_all_schedules"
    /\ output.fn = "none"
    /\ output' = [fn |-> "fetch_all_schedules"] @@ fetch_all_schedules(input.schedule_list)
    /\ UNCHANGED <<settings, chat_router, _chat_router, constructed, input, req, task, sends, delivered>>

\* one query at a time, with every configuration and every answer of Grafana
\* OnCall
InitQuery ==
    LET \* the i-th shift of a schedule
        ShiftNo(i) ==
            Dict([shift_start |-> TsNoonZ, shift_end |-> TsLateOffset,
                  user_username |-> Str(<<"e1", "e2", "e3", "e4", "e5", "e6", "e7", "e8", "e9", "e10", "e11">>[i])])
        ShiftsOf(n) == JList([i \in 1..n |-> ShiftNo(i)])
        QueryShiftCounts == {0, 1, 2, 11}
        \* the shapes of the final-shifts document
        FinalShifts ==
            {HttpError, Answer(Str("s")), Answer(Dict([detail |-> Str("d")])),
             Answer(Dict([results |-> Null, shifts |-> ShiftsOf(1)])), Answer(Dict([shifts |-> Null]))}
                \cup {Answer(Dict([results |-> ShiftsOf(n)])) : n \in QueryShiftCounts}
                \cup {Answer(Dict([shifts |-> ShiftsOf(n)])) : n \in QueryShiftCounts}
                \cup {Answer(ShiftsOf(n)) : n \in QueryShiftCounts}
        ScheduleInfos ==
            {HttpError, Answer(List("x")), Answer(Dict([team_id |-> Str("T1")]))}
                \cup {Answer(Dict([name |-> Str("Ops"), team_id |-> tid])) : tid \in {Null, Str("T1"), Str("TX")}}
        ScheduleLists ==
            {HttpError, Answer(Str("s")), Answer(JList(<<Obj("s")>>)), Answer(Dict([results |-> JList(<<Obj("s")>>)])),
             Answer(Dict([schedules |-> JList(<<>>)])), Answer(Dict([data |-> JList(<<Obj("s")>>)])),
             Answer(Dict([data |-> Str("s")]))}
        QueryCalls ==
            [fn : {"get_current_oncall_http", "get_oncall_shifts_http"}, schedule_id : {Str(""), Str("S1")},
             send_to_chat : BOOLEAN, schedule_info : ScheduleInfos, final_shifts : FinalShifts,
             schedule_list : {HttpError}, send_raises : BOOLEAN, system : {0}, now : {Clock}]
            \cup [fn : {"fetch_all_schedules"}, schedule_id : {Str("")}, send_to_chat : {FALSE},
                  schedule_info : {HttpError}, final_shifts : {HttpError}, schedule_list : ScheduleLists,
                  send_raises : {FALSE}, system : {0}, now : {Clock}]
        QuerySettings ==
            [chat_routing_config : {RoutingUnset, RoutingDict([k \in {"T1"} |-> ChA]), RoutingDict([k \in {"T1"} |-> ChNotUuid])},
             target_chat_id : {NoChat, ChF}, botx_bot_id : {BotId},
             grafana_oncall_url : {Null, Str("https://oncall.example.org")},
             grafana_oncall_token : {Str(""), Str("token")},
             local_timezone : {TzUnset, TzInvalid}]
    IN  /\ settings \in QuerySettings
        /\ chat_router = ChatRouter(get_chat_routing(settings), settings.target_chat_id)
        /\ _chat_router = NoRouter
        /\ constructed = 0
        /\ input \in QueryCalls
        /\ output = NotCalled
        /\ req = [r \in Requests |-> NoRequest]
        /\ task = [r \in Requests |-> NoTask]
        /\ sends = <<>>
        /\ delivered = <<>>

NextQuery ==
    \/ get_current_oncall_http
    \/ get_oncall_shifts_http
    \/ CallFetchAllSchedules

SpecQuery == InitQuery /\ [][NextQuery]_vars

(***************************************************************************)
(* The service: webhook requests, their background tasks and a query, in   *)
(* any order                                                               *)
(***************************************************************************)
InitService ==
    LET ServiceBodies ==
            {Json(Payload(TeamObj("id", Str("T1")), Absent, TeamLeaf(Absent), EventObj("", Str("escalation")), Absent)),
             Json(Payload(TeamObj("id", Str("TX")), Absent, TeamLeaf(Absent), EventObj("", Str("Resolve")), Absent))}
        ServiceShifts ==
            {<<Dict([shift_start |-> TsNoonZ, shift_end |-> TsLateOffset, user_username |-> Str("e1")])>>}
        ServiceQueries ==
            [fn : {"get_current_oncall_http", "get_oncall_shifts_http"}, schedule_id : {Str("S1")},
             send_to_chat : {TRUE}, schedule_info : {Answer(Dict([name |-> Str("Ops"), team_id |-> Str("T1")]))},
             final_shifts : {Answer(JList(shifts)) : shifts \in ServiceShifts},
             schedule_list : {HttpError}, send_raises : {FALSE}, system : {0}, now : {Clock}]
        ServiceSettings ==
            [chat_routing_config : {RoutingUnset, RoutingDict([k \in {"T1"} |-> ChA])},
             target_chat_id : {NoChat, ChF}, botx_bot_id : {BotId},
             ext_grafana_url : {Null},
             grafana_oncall_url : {Str("https://oncall.example.org")},
             grafana_oncall_token : {Str("token")},
             local_timezone : {TzUnset}]
    IN  /\ settings \in ServiceSettings
        /\ chat_router = ChatRouter(get_chat_routing(settings), settings.target_chat_id)
        /\ _chat_router = NoRouter
        /\ constructed = 0
        /\ input \in ServiceQueries
        /\ output = NotCalled
        /\ req \in [Requests -> {NewRequest(b) : b \in ServiceBodies}]
        /\ task = [r \in Requests |-> NoTask]
        /\ sends = <<>>
        /\ delivered = <<>>

SpecService == InitService /\ [][NextIngest \/ get_current_oncall_http \/ get_oncall_shifts_http]_vars


(***************************************************************************)
(* Claims about the webhook ingest pipeline                                *)
(***************************************************************************)
\* how many times the send capability was invoked for request r
SendsFor(r) == Cardinality({i \in 1..Len(sends) : sends[i].req = r})

Responded(r) == req[r].pc = "responded"

IsJsonObject(b) == b.kind = "json" /\ IsDict(b.json)

\* the fields the handler reads besides the team ids have the types of an
\* InboundEvent: alert_group an object, event and integration objects or absent
WellTyped(e) ==
    /\ IsDict(e.alert_group)
    /\ e.event.t \in {"absent", "obj"}
    /\ e.integration.t \in {"absent", "obj"}
    /\ Get(e.event.type).t \in {"null", "str"}

TeamResolves(e) == Truthy(FirstNonEmpty(e)) /\ IsKey(FirstNonEmpty(e))

NoDelivery(r) == task[r].pc = "none" /\ SendsFor(r) = 0

\* C5: for every request answered 202 the background task invokes the send
\* capability exactly once: never more than once, and once the task has
\* finished, not zero times.
C5_SendExactlyOnce ==
    \A r \in Requests :
        req[r].status = 202 => (SendsFor(r) <= 1 /\ (task[r].pc = "done" => SendsFor(r) = 1))

\* C6: a request that was accepted keeps its 202 whatever the send does: a
\* task exists only for a 202 response, send is invoked at most once per
\* request, and a send that returns or raises ends the task without touching
\* the response and without another send.
C6_DeliveryFailureAbsorbed ==
    /\ [](\A r \in Requests : task[r].pc # "none" => (Responded(r) /\ req[r].status = 202 /\ SendsFor(r) <= 1))
    /\ [][\A r \in Requests :
            (task[r].pc = "sending" /\ task'[r] # task[r])
                => (task'[r].pc = "done" /\ req'[r] = req[r] /\ sends' = sends)]_vars

\* C6 witness: the request was answered 202, its one send raised, and the
\* task ended with the failure logged.
C6_Witness ==
    \E r \in Requests :
        /\ Responded(r) /\ req[r].status = 202
        /\ task[r].pc = "done" /\ task[r].outcome = "send failed"
        /\ SendsFor(r) = 1

\* C7: when the payload has an alert_group, no team id resolves and no
\* fallback is configured, the response is 500 with the routing-failure
\* detail, no task is created and send is never invoked.
C7_RoutingFailure ==
    \A r \in Requests :
        (/\ Responded(r)
         /\ IsJsonObject(req[r].body)
         /\ TeamTruthy(req[r].body.json.alert_group)
         /\ WellTyped(req[r].body.json)
         /\ ~TeamResolves(req[r].body.json)
         /\ ~ChatTruthy(FallbackChannel))
            => /\ req[r].status = 500
               /\ req[r].detail = "Cannot determine target chat (no routing configuration or fallback)"
               /\ NoDelivery(r)

\* the destination the router resolves for a request's payload, when it
\* returns one
Destination(r) == get_chat_id(chat_router, req[r].body.json)

\* C8: when the router resolves a destination string that does not parse as a
\* UUID, the response is 500 and no delivery is attempted.
C8_InvalidDestination ==
    \A r \in Requests :
        (/\ Responded(r)
         /\ IsJsonObject(req[r].body)
         /\ TeamTruthy(req[r].body.json.alert_group)
         /\ Destination(r).exc = ""
         /\ Destination(r).chat.t = "str"
         /\ ChatTruthy(Destination(r).chat)
         /\ UUID(Destination(r).chat) # "")
            => (req[r].status = 500 /\ NoDelivery(r))

\* C8 witness: a well-typed payload whose team is mapped to "not-a-uuid" was
\* answered 500 "Invalid target chat_id".
C8_Witness ==
    \E r \in Requests :
        /\ Responded(r)
        /\ IsJsonObject(req[r].body)
        /\ WellTyped(req[r].body.json)
        /\ Destination(r) = Returned(ChNotUuid)
        /\ req[r].status = 500
        /\ req[r].detail = "Invalid target chat_id"
        /\ NoDelivery(r)

\* C9: a body that cannot be parsed as JSON (undecodable text included) or
\* that parses to something other than an object is answered 400, and no
\* routing or delivery happens for it.
C9_MalformedBodyRejected ==
    \A r \in Requests :
        (Responded(r) /\ ~IsJsonObject(req[r].body))
            => (req[r].status = 400 /\ ~req[r].routed /\ NoDelivery(r))

\* C10: a JSON object without alert_group is answered 400 before the router
\* is consulted, and nothing is delivered for it.
C10_MissingAlertGroupRejected ==
    \A r \in Requests :
        (Responded(r) /\ IsJsonObject(req[r].body) /\ req[r].body.json.alert_group.t = "absent")
            => (req[r].status = 400 /\ ~req[r].routed /\ NoDelivery(r))

\* C10 witness: an object without alert_group whose top-level team_id is
\* mapped to a valid channel was answered 400 "Missing alert_group".
C10_Witness ==
    \E r \in Requests :
        /\ Responded(r)
        /\ IsJsonObject(req[r].body)
        /\ req[r].body.json.alert_group.t = "absent"
        /\ TeamResolves(req[r].body.json)
        /\ UUID(RoutingTable[FirstNonEmpty(req[r].body.json).v]) = ""
        /\ req[r].status = 400
        /\ req[r].detail = "Missing alert_group"

\* the `event` or `alert_group` field of a JSON object has a type the handler
\* does not expect: a non-empty alert_group that is no object, or an event
\* that is present and no object
UnexpectedFieldType(e) ==
    /\ TeamTruthy(e.alert_group)
    /\ (~IsDict(e.alert_group) \/ e.event.t \notin {"absent", "obj"})

\* C11: every handled request has a response of the handler's, with 202, 400
\* or 500 and never an escaped exception; only a 202 carries status
\* "accepted" and a task, every other answer carries status "error" and no
\* task; and a payload whose event or alert_group field has an unexpected
\* type is answered 500.
C11_AlwaysAnswered ==
    \A r \in Requests :
        /\ req[r].pc \in {"none", "new", "responded"}
        /\ Responded(r) =>
              /\ req[r].status \in {202, 400, 500}
              /\ req[r].content = (IF req[r].status = 202 THEN "accepted" ELSE "error")
              /\ req[r].status # 202 => NoDelivery(r)
              /\ (IsJsonObject(req[r].body) /\ UnexpectedFieldType(req[r].body.json))
                    => (req[r].status = 500 /\ req[r].content = "error" /\ NoDelivery(r))

\* C11 witness: a payload whose team is mapped to a valid channel but whose
\* event field is null was answered 500 "internal error" with no task.
C11_Witness ==
    \E r \in Requests :
        /\ Responded(r)
        /\ IsJsonObject(req[r].body)
        /\ IsDict(req[r].body.json.alert_group)
        /\ req[r].body.json.event.t = "null"
        /\ TeamResolves(req[r].body.json)
        /\ UUID(RoutingTable[FirstNonEmpty(req[r].body.json).v]) = ""
        /\ req[r].status = 500
        /\ req[r].detail = "internal error"
        /\ NoDelivery(r)

(***************************************************************************)
(* Claims about concurrent requests                                        *)
(***************************************************************************)
\* C12: under every interleaving of the requests, the lazily constructed
\* router is constructed at most once, exactly once as soon as one request
\* has called get_router, and once it exists no later call replaces it.
C12_RouterInitializedOnce ==
    /\ [](/\ constructed <= 1
          /\ (constructed = 1) = _chat_router.built
          /\ (\E r \in Requests : req[r].routed) => constructed = 1)
    /\ [][_chat_router.built => (_chat_router' = _chat_router /\ constructed' = constructed)]_vars

\* C12 witness: two requests have called get_router and one router was
\* constructed.
C12_Witness ==
    /\ Cardinality({r \in Requests : req[r].routed}) >= 2
    /\ constructed = 1
    /\ _chat_router.built

\* request a was accepted before request b
AcceptedBefore(a, b) == task[a].pc # "none" /\ task[b].pc # "none" /\ task[a].ticket < task[b].ticket

\* the place of request r in the order of deliveries, 0 when not delivered
DeliveryIndex(r) == IF \E i \in 1..Len(delivered) : delivered[i] = r
                    THEN CHOOSE i \in 1..Len(delivered) : delivered[i] = r
                    ELSE 0

\* C13: nothing orders deliveries: a send that is at its await may return
\* next whatever the state of the sends of other requests, earlier ones for
\* the same team included.
C13_DeliveryOrderFree ==
    \A r \in Requests : task[r].pc = "sending" => ENABLED SendReturns(r)

\* C13 witness: two events for the same team were accepted in one order and
\* delivered to the same channel in the opposite order.
C13_Witness ==
    \E a, b \in Requests :
        /\ AcceptedBefore(a, b)
        /\ FirstNonEmpty(req[a].body.json) = FirstNonEmpty(req[b].body.json)
        /\ Truthy(FirstNonEmpty(req[a].body.json))
        /\ task[a].target_chat_id = task[b].target_chat_id
        /\ DeliveryIndex(a) > 0
        /\ DeliveryIndex(b) > 0
        /\ DeliveryIndex(b) < DeliveryIndex(a)

\* a channel the router can name: a value of the RoutingTable, or the
\* FallbackChannel
RoutableChannel(c) == c = FallbackChannel \/ \E k \in DOMAIN RoutingTable : RoutingTable[k] = c

\* C30: a background task exists for a request exactly when the request was
\* answered 202; every invocation of send belongs to a request answered 202
\* and carries the channel the router resolved for that request, which is a
\* RoutingTable value or the FallbackChannel and passed the UUID validation;
\* a request answered 400 or 500 has no send.
C30_SendOnlyAfterAccept ==
    /\ \A r \in Requests : task[r].pc # "none" <=> (Responded(r) /\ req[r].status = 202)
    /\ \A i \in 1..Len(sends) :
            /\ req[sends[i].req].status = 202
            /\ sends[i].chat_id = Destination(sends[i].req).chat
            /\ RoutableChannel(sends[i].chat_id)
            /\ validate_chat_id(sends[i].chat_id) = [exc |-> "", ok |-> TRUE]
    /\ \A r \in Requests : req[r].status \in {400, 500} => NoDelivery(r)

\* C30 witness: with a fallback configured, an event of a mapped team was
\* answered 202 and its task invoked send with the channel of the table.
C30_Witness ==
    \E r \in Requests :
        /\ Responded(r) /\ req[r].status = 202
        /\ task[r].pc = "done" /\ task[r].outcome = "sent"
        /\ ChatTruthy(FallbackChannel)
        /\ \E i \in 1..Len(sends) :
               /\ sends[i].req = r
               /\ sends[i].chat_id = ChA
               /\ sends[i].chat_id # FallbackChannel
               /\ RoutableChannel(sends[i].chat_id)

(***************************************************************************)
(* Claims about the event formatter                                        *)
(***************************************************************************)
Rendered == output.fn = "parse_oncall_event"

\* the message is the placeholder that stands for a failed rendering
Placeholder == Len(output.text) = 1 /\ output.text[1].line = "Error processing alert"

HasLine(k) == \E i \in 1..Len(output.text) : output.text[i].line = k

\* the values written in the first line of kind k
LineText(k) == output.text[CHOOSE i \in 1..Len(output.text) : output.text[i].line = k].text

\* the fields of the event being rendered
InAlertGroup == GetOrEmptyDict(Field(input.event, "alert_group"))

InAlertPayload == GetOrEmptyDict(Field(input.event, "alert_payload"))

InEvent == GetOrEmptyDict(Field(input.event, "event"))

CaseFold(x) == IF x = "ESCALATION" THEN "escalation" ELSE IF x = "Resolve" THEN "resolve" ELSE x

\* EventType: event.type case-folded, the alert group's state when the event
\* has no type, "" when it has neither
EventType ==
    LET ty == Dget(InEvent, "type")
        state == Dget(InAlertGroup, "state")
    IN  IF Truthy(ty) /\ ty.t = "str" THEN CaseFold(ty.v)
        ELSE IF Truthy(state) /\ state.t = "str" THEN CaseFold(state.v)
        ELSE ""

\* the payload has one of the fields the claim names null or of a type that
\* is no object
BadFieldType ==
    \/ Field(input.event, "alert_group").t \notin {"absent", "obj"}
    \/ Field(input.event, "alert_payload").t \notin {"absent", "obj"}
    \/ Field(input.event, "event").t \notin {"absent", "obj"}
    \/ Field(input.event, "user").t \notin {"absent", "obj"}

\* C14: parse_oncall_event returns a message for every payload and never
\* raises; when the formatter fails, the message is the placeholder.
C14_RenderTotal ==
    Rendered =>
        /\ output.exc = ""
        /\ output.text # <<>>
        /\ format_oncall_webhook_message(input.event).exc # "" => Placeholder

\* C14 witness: a payload whose alert_payload is null was rendered as the
\* placeholder.
C14_Witness ==
    /\ Rendered
    /\ Field(input.event, "alert_payload").t = "null"
    /\ IsDict(InAlertGroup)
    /\ BadFieldType
    /\ output.exc = ""
    /\ Placeholder

\* C15: the counts line and the Group Labels and Common Labels blocks appear
\* only when the event type is escalation.
C15_CountsAndLabelsOnlyForEscalation ==
    (Rendered /\ EventType # "escalation")
        => (~HasLine("Alerts in group") /\ ~HasLine("Group Labels") /\ ~HasLine("Common Labels"))

\* C15 witness: a resolve event whose payload carries group and common labels
\* was rendered, not as the placeholder, without counts and labels.
C15_Witness ==
    /\ Rendered
    /\ ~Placeholder
    /\ EventType = "resolve"
    /\ IsDict(Dget(InAlertPayload, "groupLabels")) /\ Truthy(Dget(InAlertPayload, "groupLabels"))
    /\ IsDict(Dget(InAlertPayload, "commonLabels")) /\ Truthy(Dget(InAlertPayload, "commonLabels"))
    /\ IsDict(Dget(InAlertGroup, "labels")) /\ Truthy(Dget(InAlertGroup, "labels"))
    /\ ~HasLine("Alerts in group") /\ ~HasLine("Group Labels") /\ ~HasLine("Common Labels")

FirstTruthy(a, b, c) == IF Truthy(a) THEN a ELSE IF Truthy(b) THEN b ELSE IF Truthy(c) THEN c ELSE Null

\* the first alert of alert_payload.alerts, an empty object when there is none
FirstAlert ==
    LET alerts == Dget(InAlertPayload, "alerts")
    IN  IF alerts.t = "list" /\ Truthy(alerts) THEN First(alerts) ELSE Obj("")

\* the escalation-style start: alert-group created_at, else the first alert's
\* startsAt
EscalationStart == FirstTruthy(Dget(InAlertGroup, "created_at"), Dget(FirstAlert, "startsAt"), Null)

\* the timestamps the claim names as the source of the Start and Resolve
\* lines, Null where the event type shows none
StartSource ==
    CASE EventType \in {"escalation", "resolve", "resolved"} -> EscalationStart
      [] EventType = "silence" -> FirstTruthy(Dget(InEvent, "time"), Dget(InAlertGroup, "silenced_at"), EscalationStart)
      [] OTHER -> Null

ResolveSource ==
    CASE EventType \in {"resolve", "resolved"} -> FirstTruthy(Dget(InAlertGroup, "resolved_at"), Null, Null)
      [] EventType = "silence" -> FirstTruthy(Dget(InEvent, "until"), Null, Null)
      [] OTHER -> Null

C17_ByLineGatedByType ==
    Rendered =>
        /\ ~Placeholder =>
              HasLine("By") = (EventType \in {"acknowledge", "acknowledged", "resolve", "resolved",
                                              "unacknowledge", "unresolve", "silence", "unsilence"})
        /\ EventType = "escalation" => ~HasLine("By")

\* C17 witness: an escalation whose payload carries a user with a username
\* was rendered without a By line.
C17_Witness ==
    /\ Rendered
    /\ ~Placeholder
    /\ EventType = "escalation"
    /\ Truthy(Dget(Dget(input.event, "user"), "username"))
    /\ ~HasLine("By")

\* what the claim says a timestamp is shown as: HH:MM:SS DD.MM.YY of the
\* parsed value, converted to the local timezone when one is configured, and
\* the raw value when it does not parse
ShownAs(ts) ==
    LET dt == fromisoformat(ReplaceZ(Chars(ts)))
        tz == settings.local_timezone
    IN  IF ts.t # "str" \/ ~dt.ok THEN ts
        ELSE IF tz.set /\ tz.valid /\ dt.aware THEN Ts(strftime_HMS_dmy(astimezone(dt, tz.utcoffset, 0)))
        ELSE Ts(strftime_HMS_dmy(dt))

\* C18: the Start and Resolve lines show their timestamps as HH:MM:SS DD.MM.YY
\* in the configured local timezone when one is set, and as the raw value when
\* the timestamp does not parse.
C18_TimestampsInLocalZone ==
    (Rendered /\ ~Placeholder) =>
        /\ HasLine("Start") => LineText("Start") = <<ShownAs(StartSource)>>
        /\ HasLine("Resolve") => LineText("Resolve") = <<ShownAs(ResolveSource)>>

\* the alert group's state, case-folded; the event's type when the group has
\* no state
GroupState ==
    LET state == Dget(InAlertGroup, "state")
    IN  IF Truthy(state) /\ state.t = "str" THEN CaseFold(state.v) ELSE EventType

\* the glyph and the status label the message shows
ShownStatus == <<output.text[1].text[1].v, LineText("Status")[1].v>>

\* C27 as it is written: the event type is event.type case-folded, else the
\* alert group's state; a type of the table shows the table's glyph and
\* label, and every other type the question glyph and its capitalized tag.
C27_UnknownTypeShowsQuestion ==
    (Rendered /\ ~Placeholder /\ EventType # "") =>
        ShownStatus = IF EventType \in DOMAIN status_map THEN status_map[EventType]
                      ELSE <<"question", Capitalize(EventType)>>

\* C27: the event type is event.type case-folded, else the alert group's
\* state; a type of the table shows the table's glyph and label; a type
\* outside the table shows the glyph and label of the alert group's state
\* when that state is in the table, and else the question glyph and the
\* capitalized tag.
C27_StatusByTypeThenState ==
    (Rendered /\ ~Placeholder /\ EventType # "") =>
        ShownStatus = IF EventType \in DOMAIN status_map THEN status_map[EventType]
                      ELSE IF GroupState \in DOMAIN status_map THEN status_map[GroupState]
                      ELSE <<"question", Capitalize(EventType)>>

\* C27 witness: an event of a type outside the table, for an alert group in
\* state resolved, was rendered with the glyph and label of resolved.
C27_Witness ==
    /\ Rendered
    /\ ~Placeholder
    /\ Dget(InEvent, "type") = Str("custom")
    /\ Dget(InAlertGroup, "state") = Str("resolved")
    /\ ShownStatus = <<"green_circle", "Resolved">>

(***************************************************************************)
(* Claims about the schedule formatters                                    *)
(***************************************************************************)
ScheduleRendered == output.fn \in {"format_current_oncall", "format_oncall_list", "format_oncall_day_summary"}

\* the first shift of the input carries its window under shift_start and
\* shift_end, the second under start and end
AliasPair ==
    /\ Len(input.shifts_data) = 2
    /\ {"shift_start", "shift_end"} \subseteq DOMAIN input.shifts_data[1]
    /\ {"start", "end"} \subseteq DOMAIN input.shifts_data[2]

WindowStart(i) == IF i = 1 THEN Field(input.shifts_data[1], "shift_start") ELSE Field(input.shifts_data[2], "start")

WindowEnd(i) == IF i = 1 THEN Field(input.shifts_data[1], "shift_end") ELSE Field(input.shifts_data[2], "end")

HasInstant(ts) == ts.t = "str" /\ fromisoformat(ReplaceZ(Chars(ts))).ok

\* the instant a timestamp names, as a UTC datetime
Instant(ts) == astimezone(fromisoformat(ReplaceZ(Chars(ts))), 0, SystemOffset)

\* the same value, or two timestamps that name the same instant
EqualInstants(a, b) == a = b \/ (HasInstant(a) /\ HasInstant(b) /\ Instant(a) = Instant(b))

EqualWindows == EqualInstants(WindowStart(1), WindowStart(2)) /\ EqualInstants(WindowEnd(1), WindowEnd(2))

SameTimestampText == WindowStart(1) = WindowStart(2) /\ WindowEnd(1) = WindowEnd(2)

\* both shifts were rendered: the call returned, and the list showed both
BothRendered ==
    /\ ScheduleRendered
    /\ output.fn = "format_current_oncall" => \A i \in 1..2 : output.each[i].exc = ""
    /\ output.fn # "format_current_oncall" => output.exc = ""
    /\ output.fn = "format_oncall_list" => input.max_items >= 2

\* the time line of the i-th entry of a rendered list
ItemTimes(text, i) ==
    LET p == CHOOSE k \in 1..Len(text) : text[k].line = "item" /\ text[k].text[1] = i
    IN  IF p < Len(text) /\ text[p + 1].line = "item start" THEN text[p + 1].text ELSE <<>>

\* the time strings rendered for the i-th shift of the input
TimeStrings(i) ==
    CASE output.fn = "format_current_oncall" ->
            SelectSeq(output.each[i].text, LAMBDA l : l.line \in {"shift start", "shift end"})
      [] output.fn = "format_oncall_list" -> ItemTimes(output.text, i)
      [] OTHER -> SubSeq(output.text[i + 2].text, 2, 3)

\* C20 as it is written: two ShiftRecords, one with its window under
\* shift_start/shift_end and one under start/end, with equal instants, render
\* identical time strings in each schedule renderer.
C20_EqualInstantsRenderAlike ==
    (AliasPair /\ EqualWindows /\ BothRendered) => TimeStrings(1) = TimeStrings(2)

\* C20: two ShiftRecords, one with its window under shift_start/shift_end and
\* one under start/end, with equal instants, render identical time strings in
\* each schedule renderer (current, list, day summary), provided the instants
\* are written as the same timestamp strings or a local timezone that exists
\* is configured.
C20_AliasesRenderAlike ==
    (/\ AliasPair
     /\ EqualWindows
     /\ SameTimestampText \/ settings.local_timezone.valid
     /\ BothRendered) => TimeStrings(1) = TimeStrings(2)

\* C20 witness: with Moscow's zone configured, a shift whose shift_start is
\* noon UTC and a shift whose start is the same instant written at +03:00 were
\* rendered by format_current_oncall with the same start and end lines.
C20_Witness ==
    /\ AliasPair
    /\ output.fn = "format_current_oncall"
    /\ BothRendered
    /\ settings.local_timezone = TzMoscow
    /\ WindowStart(1) = TsNoonZ
    /\ WindowStart(2) = TsNoonZInMoscow
    /\ WindowEnd(1) = TsLateOffset
    /\ WindowEnd(2) = TsLateOffset
    /\ Len(TimeStrings(1)) = 2
    /\ TimeStrings(1) = TimeStrings(2)

\* the shifts of the input that the call rendered
ShownShifts ==
    {i \in 1..Len(input.shifts_data) :
        /\ ScheduleRendered
        /\ output.fn = "format_current_oncall" => output.each[i].exc = ""
        /\ output.fn # "format_current_oncall" => output.exc = ""
        /\ output.fn = "format_oncall_list" => i <= input.max_items}

\* the window of a shift by the one rule: the first non-empty alias in the
\* order start, start_time, shift_start, shift_start_time, and the same for end
OneRuleWindow(shift) ==
    <<FirstAlias(shift, <<"start", "start_time", "shift_start", "shift_start_time">>),
      FirstAlias(shift, <<"end", "end_time", "shift_end", "shift_end_time">>)>>

\* the time strings a renderer shows for a window
WindowStrings(w) ==
    CASE output.fn = "format_current_oncall" ->
            (IF Truthy(w[1]) THEN <<Line("shift start", <<ShiftTime(w[1])>>)>> ELSE <<>>)
                \o (IF Truthy(w[2]) THEN <<Line("shift end", <<ShiftTime(w[2])>>)>> ELSE <<>>)
      [] output.fn = "format_oncall_list" -> IF Truthy(w[1]) THEN <<ShiftTime(w[1])>> ELSE <<>>
      [] OTHER -> <<_hm(w[1]), _hm(w[2])>>

\* C28: every schedule renderer (current, list, day summary) shows for each
\* shift the window resolved by one rule: the first non-empty of start,
\* start_time, shift_start, shift_start_time, and symmetrically for the end.
C28_OneWindowRule ==
    \A i \in ShownShifts : TimeStrings(i) = WindowStrings(OneRuleWindow(input.shifts_data[i]))

\* the assignee name of a shift by the one rule: user.name, else the nested
\* user_email / user_username, else the sibling user_username / user_email,
\* else "Unknown"
OneRuleName(shift) ==
    LET user == Or(Dget(shift, "user"), Obj(""))
    IN  Or(Dget(user, "name"), Or(Dget(user, "user_email"), Or(Dget(user, "user_username"),
            Or(Dget(shift, "user_username"), Or(Dget(shift, "user_email"), Str("Unknown"))))))

\* the name rendered for the i-th shift of the input
NameShown(i) ==
    CASE output.fn = "format_current_oncall" ->
            SelectSeq(output.each[i].text, LAMBDA l : l.line = "person")[1].text[1]
      [] output.fn = "format_oncall_list" ->
            SelectSeq(output.text, LAMBDA l : l.line = "item" /\ l.text[1] = i)[1].text[2]
      [] OTHER -> output.text[i + 2].text[1]

\* C29: every schedule renderer shows for each shift the assignee name
\* resolved by one rule: user.name, else the nested user_email / user_username,
\* else the sibling user_username / user_email, else "Unknown".
C29_OneNameRule ==
    \A i \in ShownShifts : NameShown(i) = OneRuleName(input.shifts_data[i])

(***************************************************************************)
(* Claims about the schedule queries                                       *)
(***************************************************************************)
OncallQuery == output.fn = "get_current_oncall_http"

ShiftsQuery == output.fn = "get_oncall_shifts_http"

\* the API base URL and the token are both set
Configured == Truthy(settings.grafana_oncall_url) /\ Truthy(settings.grafana_oncall_token)

\* the request names a schedule, and Grafana OnCall answered both fetches: the
\* schedule's metadata with an object, the final shifts with one of the
\* tolerated shapes
HasShiftList(doc) ==
    \/ doc.t = "list"
    \/ IsDict(doc) /\ Field(doc, "results").t = "list"
    \/ IsDict(doc) /\ Field(doc, "results").t = "absent" /\ Field(doc, "shifts").t = "list"

Answered ==
    /\ Configured
    /\ Truthy(input.schedule_id)
    /\ input.schedule_info.kind = "json" /\ IsDict(input.schedule_info.json)
    /\ input.final_shifts.kind = "json" /\ HasShiftList(input.final_shifts.json)

\* the shifts the external API returned
ReturnedShifts ==
    LET doc == input.final_shifts.json
    IN  IF doc.t = "list" THEN doc.items
        ELSE IF Field(doc, "results").t = "list" THEN doc.results.items
        ELSE doc.shifts.items

\* the channel the router names for the team of the schedule
QueryDestination == get_chat_id(chat_router, TeamEvent(Dget(input.schedule_info.json, "team_id"))).chat

\* C21: in the on-call query, zero shifts (under results, under shifts, or as
\* a bare list) are answered 404, with no destination resolved and nothing
\* sent, whatever send_to_chat is.
C21_NoShiftsNotFound ==
    (OncallQuery /\ Answered /\ ReturnedShifts = <<>>)
        => (output.status = 404 /\ ~output.resolved /\ sends = <<>>)

\* C21 witness: a query with send_to_chat set, for a schedule whose team has a
\* channel, got an empty list under shifts and was answered 404 with no send.
C21_Witness ==
    /\ OncallQuery /\ Answered
    /\ input.send_to_chat
    /\ Field(input.final_shifts.json, "shifts") = JList(<<>>)
    /\ QueryDestination = ChA
    /\ output.status = 404 /\ ~output.resolved /\ sends = <<>>

\* the two forms of the text of a query
DaySummaryForm(body) == body[1].line = "today"

SingleShiftForm(body) == \E i \in 1..Len(body) : body[i].line = "current oncall"

\* an on-call query that asks for a send and whose team has a channel
SendRequested ==
    /\ OncallQuery /\ Answered
    /\ ReturnedShifts # <<>>
    /\ input.send_to_chat
    /\ ChatTruthy(QueryDestination)

\* C22 as it is written: with send_to_chat set and a destination that
\* resolves, the text sent is the day summary exactly when more than one shift
\* was returned, the single-shift form when exactly one was, and sent_to_chat
\* is true.
C22_FormAndSentFlag ==
    SendRequested =>
        /\ Len(sends) = 1
        /\ DaySummaryForm(sends[1].body) <=> Len(ReturnedShifts) > 1
        /\ SingleShiftForm(sends[1].body) <=> Len(ReturnedShifts) = 1
        /\ output.sent_to_chat

\* C22: with send_to_chat set and a destination that resolves, at most one
\* text is sent, one is sent whenever the destination is a UUID and the
\* renderer returned, the text sent is the day summary exactly when more than
\* one shift was returned and the single-shift form when exactly one was, and
\* sent_to_chat is true exactly when the send was invoked and returned.
C22_FormAndSentWhenDelivered ==
    SendRequested =>
        /\ output.status = 200
        /\ Len(sends) <= 1
        /\ (UUID(QueryDestination) = "" /\ (Len(ReturnedShifts) > 1 => ~(settings.local_timezone.set /\ ~settings.local_timezone.valid)))
                => Len(sends) = 1
        /\ \A i \in 1..Len(sends) :
                /\ sends[i].chat_id = QueryDestination
                /\ DaySummaryForm(sends[i].body) <=> Len(ReturnedShifts) > 1
                /\ SingleShiftForm(sends[i].body) <=> Len(ReturnedShifts) = 1
        /\ output.sent_to_chat <=> (Len(sends) = 1 /\ ~input.send_raises)

\* C22 witness: eleven shifts were returned and the day summary was sent to
\* the channel of the schedule's team; the response says it was sent.
C22_Witness ==
    /\ SendRequested
    /\ Len(ReturnedShifts) = 11
    /\ Len(sends) = 1
    /\ sends[1].chat_id = ChA
    /\ DaySummaryForm(sends[1].body) /\ ~SingleShiftForm(sends[1].body)
    /\ output.sent_to_chat

\* C23: the shift-range query, for every combination of its parameters, is
\* answered 200 with the full count and at most ten shifts: a zero count for
\* a schedule with no shifts, never a 404.
C23_ShiftsNeverNotFound ==
    (ShiftsQuery /\ Answered)
        => /\ output.status = 200
           /\ output.shifts_count = Len(ReturnedShifts)
           /\ Len(output.shifts) <= 10
           /\ \A i \in 1..Len(output.shifts) : output.shifts[i] = ReturnedShifts[i]

\* C24: in both query endpoints a response that carries sent_to_chat has it
\* true exactly when the send capability was invoked during the request and
\* returned, false when it was not invoked or raised.
C24_SentFlagReportsDelivery ==
    ((OncallQuery \/ ShiftsQuery) /\ output.status = 200)
        => (output.sent_to_chat <=> (sends # <<>> /\ ~input.send_raises))

\* C25: when the API base URL or the token is not set, each of the three
\* fetches raises the configuration error without a GET, and a query makes no
\* GET, sends nothing and is answered with a failure status.
C25_UnconfiguredNoNetwork ==
    ~Configured =>
        /\ \A fetched \in {fetch_schedule_info(input.schedule_info), fetch_current_oncall(input.final_shifts),
                            fetch_all_schedules(input.schedule_list)} :
                fetched.exc = "RuntimeError" /\ fetched.calls = 0
        /\ output.fn = "fetch_all_schedules" => (output.exc = "RuntimeError" /\ output.calls = 0)
        /\ (OncallQuery \/ ShiftsQuery) => (output.calls = 0 /\ output.status \in {400, 500} /\ sends = <<>>)

\* C25 witness: with the URL set and the token empty, a query that names a
\* schedule was answered 500 without a GET.
C25_Witness ==
    /\ Truthy(settings.grafana_oncall_url) /\ ~Truthy(settings.grafana_oncall_token)
    /\ OncallQuery
    /\ Truthy(input.schedule_id)
    /\ input.schedule_info.kind = "json" /\ input.final_shifts.kind = "json"
    /\ output.status = 500 /\ output.calls = 0

\* C26: after a router is constructed no webhook request, query request or
\* background task changes its RoutingTable or its FallbackChannel, neither of
\* the router of the query endpoints nor of the router of the webhook
\* handler, so the channel resolved for the event of any request and for the
\* team of the query stays the same across every step.
C26_RouterImmutable ==
    [][/\ chat_router' = chat_router
       /\ _chat_router.built => _chat_router' = _chat_router
       /\ \A r \in Requests :
              (_chat_router.built /\ IsJsonObject(req[r].body))
                  => get_chat_id(_chat_router', req[r].body.json) = get_chat_id(_chat_router, req[r].body.json)
       /\ get_chat_id(chat_router', TeamEvent(Str("T1"))) = get_chat_id(chat_router, TeamEvent(Str("T1")))]_vars

\* C26 witness: two webhook requests were routed, one task delivered its
\* message, a query sent its text, and the handler's router still holds the
\* table and the fallback of the configuration.
C26_Witness ==
    /\ \A r \in Requests : Responded(r) /\ req[r].routed
    /\ \E r \in Requests : task[r].pc = "done" /\ task[r].outcome = "sent"
    /\ output.fn = "get_current_oncall_http" /\ output.status = 200 /\ output.sent_to_chat
    /\ constructed = 1
    /\ _chat_router.built
    /\ _chat_router.routing_config = RoutingTable /\ DOMAIN RoutingTable # {}
    /\ _chat_router.fallback_chat_id = FallbackChannel /\ ChatTruthy(FallbackChannel)

====
